---- MODULE Spec2Model ----
(***************************************************************************)
(* Download engine of the BitTorrent client: the piece store               *)
(* (internal/piece), the disk manager (internal/disk), the peer sessions   *)
(* and the peer pool (internal/peer) and the download coordinator          *)
(* (internal/download).                                                    *)
(*                                                                         *)
(* Byte strings are abstracted: a block payload is a record                *)
(* [len, body] where len is its length in bytes and body identifies its    *)
(* content.  SHA-1 is modelled as an injective digest of the bodies.       *)
(***************************************************************************)
EXTENDS Integers, Sequences, FiniteSets, TLC

VARIABLES
    pieces,          \* piece.Manager.pieces: index -> Piece
    bitfield,        \* piece.Manager.bitfield: sequence of bytes
    disk,            \* disk.Manager files, piece by piece: index -> payloads
    verifiers,       \* goroutines running Manager.verifyAndStorePiece
    msgLoop,         \* position of peer.Manager.messageLoop inside AddBlockData
    peers,           \* peer.Manager.peers and the state of each Peer
    wire,            \* REQUESTs delivered to each well-behaved peer, in order
    activeRequests,  \* download.Coordinator.activeRequests
    progress,        \* download.Coordinator.downloadedPieces / totalPieces
    cycle,           \* position of Coordinator.processDownloadCycle
    now,             \* time.Now(), in seconds
    sendCh,          \* Peer.sendCh of each session: the messages queued
    call,            \* per session, the call of a Peer method in progress
    stats,           \* piece.Manager.stats, or NoStats when not observed
    pool,            \* peer.Manager.peers by address, and the connection
                     \* attempts (goroutines of connectToPeer / handlePeer)
    fs,              \* disk.Manager byte by byte: the torrent's file
                     \* layout and the content of every file
    rx,              \* Peer.receiveLoop of each session: the message it
                     \* read last (msg) and the queue receiveCh (ch)
    conn,            \* a net.Conn as the reader sees it: the bytes written
                     \* to it and what ReadMessage returned for them
    strategy,        \* a piece.Strategy: the peer bitfields it was told of
                     \* and the answer of its last SelectPiece
    locks            \* the sync.RWMutex of the objects (mu) and, for each
                     \* goroutine, the operation it runs and its position

extVars == <<sendCh, call, pool, rx>>
unitVars == <<conn, strategy, locks>>

vars == <<pieces, bitfield, disk, verifiers, msgLoop, peers, wire,
          activeRequests, progress, cycle, now, extVars, stats, fs,
          unitVars>>

storeVars == <<pieces, bitfield, disk, verifiers, stats, fs>>
coordVars == <<activeRequests, progress, cycle>>

\* A block slot that holds no payload (Block.Data == nil).
NilData == [len |-> -1, body |-> 0]
\* A nil []byte bitfield; no byte of a real bitfield is negative.
NilBytes == <<-1>>

-----------------------------------------------------------------------------
(* Program constants *)

BlockSize == 16384
maxRequestsPerPeer == 10
requestTimeout == 15

(* Bounds of the model *)

NumPieces == 2
BlocksPerPiece == 2
NumPeers == 2
MaxVerifiers == 2

\* The capacity of a session's send queue, 100 in NewPeer.
SendChCap == 2
\* The capacity of a session's receive queue, 100 in NewPeer.
RecvChCap == 1

\* Manager.maxPeers (DefaultMaxPeers is 50), the addresses the tracker
\* returns and the connection attempts made.
MaxPeers == 2
NumAddrs == 3
NumAttempts == 3

\* The counters of Statistics saturate at MaxCount events.
MaxCount == 2

\* The byte-level disk: the piece length in bytes, the longest torrent and
\* the largest number of files of a layout.
DiskPieceLength == 2
DiskMaxLength == 4
MaxFiles == 3

\* The clock advances MaxTicks times, by TimeStep seconds each time.
MaxTicks == 2
TimeStep == requestTimeout
PeerIds == 1..NumPeers
Bodies == {1, 2}

PieceStateMissing == "missing"
PieceStateRequested == "requested"
PieceStateDownloaded == "downloaded"
PieceStateVerified == "verified"

-----------------------------------------------------------------------------
(* Torrent content and hashes *)

\* The bytes of the torrent at block number blk of piece index.
TrueBody(index, blk) == 1 + ((index + blk) % 2)

\* sha1.Sum over the concatenation of the payloads in data.
RECURSIVE SHA1(_)
SHA1(data) ==
    IF data = <<>> THEN 1
    ELSE 3 * SHA1(SubSeq(data, 1, Len(data) - 1)) + data[Len(data)].body

\* torrent.PieceHash(index) for a piece of numBlocks blocks.
PieceHash(index, numBlocks) ==
    SHA1([k \in 1..numBlocks |-> [len |-> 0, body |-> TrueBody(index, k - 1)]])

-----------------------------------------------------------------------------
(* internal/piece: Piece *)

NewPiece(index, length, hash) ==
    LET numBlocks == (length + BlockSize - 1) \div BlockSize
        blockLength(i) ==
            IF i = numBlocks - 1 /\ length - (i * BlockSize) < BlockSize
            THEN length - (i * BlockSize)
            ELSE BlockSize
    IN  [Index  |-> index,
         Length |-> length,
         Hash   |-> hash,
         State  |-> PieceStateMissing,
         Requests |-> {},
         Blocks |-> [i \in 0..(numBlocks - 1) |->
                        [Index |-> index, Begin |-> i * BlockSize,
                         Length |-> blockLength(i), Data |-> NilData]]]

NumBlocks(p) == Cardinality(DOMAIN p.Blocks)

IsComplete(p) == \A i \in DOMAIN p.Blocks : p.Blocks[i].Data # NilData

\* Blocks of p that hold no payload, in block order.
GetMissingBlocks(p) ==
    LET RECURSIVE from(_)
        from(i) ==
            IF i >= NumBlocks(p) THEN <<>>
            ELSE IF p.Blocks[i].Data = NilData
                 THEN <<p.Blocks[i]>> \o from(i + 1)
                 ELSE from(i + 1)
    IN  from(0)

\* A pending request of a piece (Request); the map key is PeerID-Begin-Length.
Request(peerID, begin, length) ==
    [PeerID |-> peerID, Begin |-> begin, Length |-> length]

\* Piece.AddRequest and Piece.RemoveRequest.
PieceAddRequest(p, peerID, begin, length) ==
    [p EXCEPT !.Requests = @ \cup {Request(peerID, begin, length)}]

PieceRemoveRequest(p, peerID, begin, length) ==
    [p EXCEPT !.Requests = @ \ {Request(peerID, begin, length)}]

SetBlockDataAnyLength(p, begin, data) ==
    LET found == {i \in DOMAIN p.Blocks : p.Blocks[i].Begin = begin}
    IN  IF found = {} THEN [ok |-> FALSE, piece |-> p]
        ELSE [ok |-> TRUE,
              piece |-> [p EXCEPT
                           !.Blocks[CHOOSE j \in found : TRUE].Data = data,
                           !.Requests = {r \in @ : r.Begin # begin}]]

\* Piece.SetBlockData: [ok, piece].  A block is accepted when its offset is
\* the start of a block and its length is that block's; the pending requests
\* for that offset are then dropped.
SetBlockData(p, begin, data) ==
    LET found == {i \in DOMAIN p.Blocks : p.Blocks[i].Begin = begin}
    IN  IF found = {} THEN [ok |-> FALSE, piece |-> p]
        ELSE LET i == CHOOSE j \in found : TRUE
             IN  IF data.len # p.Blocks[i].Length
                 THEN [ok |-> FALSE, piece |-> p]
                 ELSE [ok |-> TRUE,
                       piece |-> [p EXCEPT
                                    !.Blocks[i].Data = data,
                                    !.Requests = {r \in @ : r.Begin # begin}]]

\* Piece.GetData of a complete piece: the payloads in block order.
GetData(p) == [k \in 1..NumBlocks(p) |-> p.Blocks[k - 1].Data]

ClearBlocksNone(p) == p

\* The reset loop of verifyAndStorePiece: every block loses its payload.
ClearBlocks(p) ==
    [p EXCEPT !.Blocks = [i \in DOMAIN p.Blocks |->
                             [p.Blocks[i] EXCEPT !.Data = NilData]]]

-----------------------------------------------------------------------------
(* Bit operations on a bitfield, a sequence of bytes (byte k at k + 1) *)

Pow2(n) == 2 ^ n

TestBit(bf, index) ==
    LET byteIndex == index \div 8
        bitIndex == index % 8
    IN  /\ byteIndex < Len(bf)
        /\ (bf[byteIndex + 1] \div Pow2(7 - bitIndex)) % 2 = 1

OrBitLowFirst(bf, index) ==
    LET byteIndex == index \div 8
        bitIndex == index % 8
    IN  IF byteIndex < Len(bf)
           /\ (bf[byteIndex + 1] \div Pow2(bitIndex)) % 2 = 0
        THEN [bf EXCEPT ![byteIndex + 1] = @ + Pow2(bitIndex)]
        ELSE bf

\* bf[byteIndex] |= 1 << (7 - bitIndex), when byteIndex is inside bf.
OrBit(bf, index) ==
    LET byteIndex == index \div 8
        bitIndex == index % 8
    IN  IF byteIndex < Len(bf) /\ ~TestBit(bf, index)
        THEN [bf EXCEPT ![byteIndex + 1] = @ + Pow2(7 - bitIndex)]
        ELSE bf

-----------------------------------------------------------------------------
(* internal/piece: Manager *)

NewManager(numPieces, pieceLength, lastPieceLength) ==
    [i \in 0..(numPieces - 1) |->
        LET length == IF i = numPieces - 1 /\ lastPieceLength > 0
                      THEN lastPieceLength ELSE pieceLength
        IN  NewPiece(i, length,
                     PieceHash(i, (length + BlockSize - 1) \div BlockSize))]

NewBitfield(numPieces) == [k \in 1..((numPieces + 7) \div 8) |-> 0]

GetNeededPieces ==
    {i \in DOMAIN pieces : pieces[i].State # PieceStateVerified}

GetProgressCounts ==
    [downloaded |-> Cardinality({i \in DOMAIN pieces :
                                    pieces[i].State = PieceStateVerified}),
     total |-> Cardinality(DOMAIN pieces)]

GetBlockRequests(pieceIndex) ==
    IF pieceIndex \notin DOMAIN pieces THEN <<>>
    ELSE GetMissingBlocks(pieces[pieceIndex])

\* A VerifyPiece that checks the index and not the digest.
VerifyPieceIndexOnly(pieceIndex, data) ==
    pieceIndex \in DOMAIN pieces

\* disk.Manager.VerifyPiece
VerifyPiece(pieceIndex, data) ==
    /\ pieceIndex \in DOMAIN pieces
    /\ SHA1(data) = pieces[pieceIndex].Hash

\* SequentialStrategy.SelectPiece through Manager.SelectPieceForPeer:
\* the index selected, or -1 ("no piece selected").
peerHasPiece(bf, pieceIndex) ==
    /\ bf # NilBytes
    /\ Len(bf) # 0
    /\ TestBit(bf, pieceIndex)

SelectPieceForPeer(peerBitfield) ==
    LET cand == {i \in DOMAIN pieces :
                    /\ pieces[i].State # PieceStateVerified
                    /\ peerHasPiece(peerBitfield, i)}
    IN  IF cand = {} THEN -1
        ELSE CHOOSE i \in cand : \A j \in cand : i <= j

-----------------------------------------------------------------------------
(* internal/peer: Peer *)

\* NewPeer / NewPeerState; status is "new" before the handshake, "alive"
\* while the context is live, "closed" once cancelled and "removed" once
\* removePeer took the session out of the registry.
NewPeer(kind) ==
    [status         |-> "new",
     kind           |-> kind,
     AmChoking      |-> TRUE,
     AmInterested   |-> FALSE,
     PeerChoking    |-> TRUE,
     PeerInterested |-> FALSE,
     bitfield       |-> NilBytes]

IsConnected(p) == peers[p].status = "alive"
Registered(p) == peers[p].status \in {"alive", "closed"}
GetConnectedPeers == {p \in PeerIds : Registered(p)}

HasPiece(peer, index) ==
    /\ peer.bitfield # NilBytes
    /\ TestBit(peer.bitfield, index)

\* A CanDownload that lets every session through.
CanDownloadAlways(peer) == TRUE

\* Peer.CanDownload
CanDownload(peer) == ~peer.PeerChoking /\ peer.AmInterested

NeedsPieces(peer, neededPieces) ==
    /\ peer.bitfield # NilBytes
    /\ \E i \in neededPieces : HasPiece(peer, i)

\* Peer.EnsureInterested (Interested / NotInterested set the flag and
\* queue the message).
EnsureInterested(peer, neededPieces) ==
    LET shouldBeInterested == NeedsPieces(peer, neededPieces)
    IN  IF shouldBeInterested /\ ~peer.AmInterested
        THEN [peer EXCEPT !.AmInterested = TRUE]
        ELSE IF ~shouldBeInterested /\ peer.AmInterested
             THEN [peer EXCEPT !.AmInterested = FALSE]
             ELSE peer

\* A setPieceUnsafe that forgets what the remote peer has.
setPieceForgetting(peer, index) == [peer EXCEPT !.bitfield = NilBytes]

\* Peer.setPieceUnsafe
setPieceUnsafe(peer, index) ==
    IF peer.bitfield = NilBytes THEN peer
    ELSE [peer EXCEPT !.bitfield = OrBit(peer.bitfield, index)]

-----------------------------------------------------------------------------
(* internal/download: Coordinator *)

RequestKey(pieceIndex, begin) == <<pieceIndex, begin>>

countActiveRequestsForPeer(ar, p) ==
    Cardinality({k \in DOMAIN ar : ar[k].Peer = p})

RemoveKeys(ar, ks) == [k \in (DOMAIN ar) \ ks |-> ar[k]]

PutKey(ar, key, info) ==
    [k \in (DOMAIN ar) \cup {key} |-> IF k = key THEN info ELSE ar[k]]

\* Coordinator.HandlePieceReceived
HandlePieceReceived(ar, pieceIndex, begin) ==
    RemoveKeys(ar, {RequestKey(pieceIndex, begin)})

\* Peer.RequestPiece for session p: TRUE when the REQUEST was queued.
\* sendOk is the outcome of SendMessage on a cancelled session, where the
\* select may take the send or the ctx.Done case.
RequestPiece(p, sendOk) ==
    /\ ~peers[p].PeerChoking
    /\ (IsConnected(p) \/ sendOk)

\* A lookup that never finds the block's entry.
AlreadyRequestedNever(ar, requestKey) == FALSE

\* _, exists := c.activeRequests[requestKey]
AlreadyRequested(ar, requestKey) == requestKey \in DOMAIN ar

\* A budget that forgets the requests already outstanding.
requestsToMakeIgnoringActive(activeCount) == maxRequestsPerPeer

\* requestsToMake := c.maxRequestsPerPeer - activeCount
requestsToMake(activeCount) == maxRequestsPerPeer - activeCount

\* The loop of requestPiecesFromPeer over blockRequests, from position n,
\* stopping after budget requests: [ar, sent] with sent the keys of the
\* REQUESTs queued.
RECURSIVE IssueRequests(_, _, _, _, _, _, _, _)
IssueRequests(p, sendOk, pieceIndex, blockRequests, n, ar, sent, budget) ==
    IF n > Len(blockRequests) \/ Len(sent) >= budget
    THEN [ar |-> ar, sent |-> sent]
    ELSE LET blockReq == blockRequests[n]
             requestKey == RequestKey(pieceIndex, blockReq.Begin)
         IN  IF AlreadyRequested(ar, requestKey)
             THEN IssueRequests(p, sendOk, pieceIndex, blockRequests, n + 1,
                                ar, sent, budget)
             ELSE IF ~RequestPiece(p, sendOk)
             THEN IssueRequests(p, sendOk, pieceIndex, blockRequests, n + 1,
                                ar, sent, budget)
             ELSE IssueRequests(p, sendOk, pieceIndex, blockRequests, n + 1,
                      PutKey(ar, requestKey,
                             [PieceIndex  |-> pieceIndex,
                              Begin       |-> blockReq.Begin,
                              Length      |-> blockReq.Length,
                              RequestedAt |-> now,
                              Peer        |-> p]),
                      Append(sent, requestKey), budget)

\* Coordinator.requestPiecesFromPeer: [ar, sent].
requestPiecesFromPeer(p, sendOk, neededPieces) ==
    LET activeCount == countActiveRequestsForPeer(activeRequests, p)
        none == [ar |-> activeRequests, sent |-> <<>>]
        availablePieces == {i \in neededPieces : HasPiece(peers[p], i)}
        pieceIndex == SelectPieceForPeer(peers[p].bitfield)
    IN  IF activeCount >= maxRequestsPerPeer THEN none
        ELSE IF peers[p].bitfield = NilBytes THEN none
        ELSE IF availablePieces = {} THEN none
        ELSE IF pieceIndex = -1 THEN none
        ELSE IssueRequests(p, sendOk, pieceIndex, GetBlockRequests(pieceIndex),
                           1, activeRequests, <<>>,
                           requestsToMake(activeCount))

IsDownloadComplete ==
    progress.downloadedPieces = progress.totalPieces /\ progress.totalPieces > 0

-----------------------------------------------------------------------------
(* Initial states *)

IdleSlot == [pc |-> "idle", piece |-> -1, data |-> <<>>]
\* err: whether the last AddBlockData returned an error.
IdleLoop == [pc |-> "idle", piece |-> -1, begin |-> -1, err |-> FALSE]
\* The specifications that do not observe piece.Manager.stats leave it
\* out of the state: every update of NoStats is NoStats.
NoStats == [TotalPieces |-> -1]

\* The Statistics of NewManager.
NewStatistics(numPieces) ==
    [TotalPieces |-> numPieces, CompletedPieces |-> 0, VerifiedPieces |-> 0,
     ActiveRequests |-> 0, BytesDownloaded |-> 0, BytesVerified |-> 0]

\* x + n, held at cap.
SatAdd(x, n, cap) == IF x + n > cap THEN cap ELSE x + n

MaxBytes == MaxCount * BlocksPerPiece * BlockSize

\* m.stats.BytesDownloaded += len(data) in AddBlockData.
StatsBlockAdded(st, data) ==
    IF st = NoStats THEN st
    ELSE [st EXCEPT !.BytesDownloaded = SatAdd(@, data.len, MaxBytes)]

\* The three counters MarkPieceVerified advances.
StatsPieceVerified(st, piece) ==
    IF st = NoStats THEN st
    ELSE [st EXCEPT !.CompletedPieces = SatAdd(@, 1, MaxCount),
                    !.VerifiedPieces = SatAdd(@, 1, MaxCount),
                    !.BytesVerified = SatAdd(@, piece.Length, MaxBytes)]

\* The specifications that keep the disk piece by piece (disk) leave the
\* byte-level files out of the state.
NoFiles == [single |-> TRUE, files |-> <<>>]

\* receiveLoop has read nothing yet.
NoMessage == [ID |-> "none"]

\* peer.NewManager: its own bitfield, all zero, its upload counter, the
\* empty registry, and no connection attempt started.
NewPool(numPieces) ==
    [bitfield |-> NewBitfield(numPieces),
     BytesUploaded |-> 0,
     ActivePeers |-> 0,
     registry |-> {},
     attempts |-> [s \in 1..NumAttempts |->
                     [pc |-> "idle", addr |-> 0, connected |-> FALSE,
                      added |-> FALSE]]]

\* No method of the session is running; err is what the last one returned.
\* changed: whether the method changed a state flag before sending.
IdleCall ==
    [pc |-> "idle", op |-> "", msg |-> <<>>, err |-> "", changed |-> FALSE]
IdleCycle == [pc |-> "idle", needed |-> {}, todo |-> {}]

\* Files pre-truncated by disk.Manager.Initialize: every byte is zero.
ZeroPiece(p) ==
    [k \in 1..NumBlocks(p) |-> [len |-> p.Blocks[k - 1].Length, body |-> 0]]

\* The sessions, the coordinator and the pool before anything happened.
InitRest(numPieces, kinds) ==
    /\ verifiers = [s \in 1..MaxVerifiers |-> IdleSlot]
    /\ msgLoop = IdleLoop
    /\ peers = [p \in PeerIds |-> NewPeer(kinds[p])]
    /\ wire = [p \in PeerIds |-> <<>>]
    /\ activeRequests = [k \in {} |-> 0]
    /\ progress = [downloadedPieces |-> 0, totalPieces |-> 0]
    /\ cycle = IdleCycle
    /\ now = 0
    /\ sendCh = [p \in PeerIds |-> <<>>]
    /\ call = [p \in PeerIds |-> IdleCall]
    /\ pool = NewPool(numPieces)
    /\ rx = [p \in PeerIds |-> [msg |-> NoMessage, ch |-> <<>>]]

InitSession(numPieces, pieceLength, lastPieceLength, kinds) ==
    /\ pieces = NewManager(numPieces, pieceLength, lastPieceLength)
    /\ bitfield = NewBitfield(numPieces)
    /\ disk = [i \in 0..(numPieces - 1) |->
                  ZeroPiece(NewManager(numPieces, pieceLength, lastPieceLength)[i])]
    /\ InitRest(numPieces, kinds)

\* No connection is read byte by byte and no strategy is in use.
NoConn == [buf |-> <<>>, written |-> <<>>, frame |-> <<>>, out |-> <<>>]
NoStrategy == [name |-> "none"]
\* No lock is observed.
NoLocks == [mu |-> <<>>, th |-> <<>>]

InitBase(numPieces, pieceLength, lastPieceLength, kinds) ==
    /\ InitSession(numPieces, pieceLength, lastPieceLength, kinds)
    /\ conn = NoConn
    /\ strategy = NoStrategy
    /\ locks = NoLocks

InitWith(numPieces, pieceLength, lastPieceLength, kinds) ==
    /\ InitBase(numPieces, pieceLength, lastPieceLength, kinds)
    /\ stats = NoStats
    /\ fs = NoFiles

-----------------------------------------------------------------------------
(* Peer pool and sessions: what the remote side makes happen *)

RECURSIVE FullBits(_, _)
FullBits(bf, n) == IF n = 0 THEN bf ELSE FullBits(OrBit(bf, n - 1), n - 1)

\* The BITFIELD payloads remote peers send: every piece, or piece 0 alone.
PeerBitfields ==
    LET n == Cardinality(DOMAIN pieces)
    IN  {FullBits(NewBitfield(n), n), OrBit(NewBitfield(n), 0)}

\* Manager.connectToPeer: handshake done, session registered by addPeer.
Connect(p) ==
    /\ peers[p].status = "new"
    /\ peers' = [peers EXCEPT ![p].status = "alive"]
    /\ UNCHANGED <<storeVars, msgLoop, wire, coordVars, now, extVars, unitVars>>

\* Peer.handleMessage, MsgChoke
RecvChoke(p) ==
    /\ IsConnected(p)
    /\ peers[p].kind # "honest"
    /\ peers' = [peers EXCEPT ![p].PeerChoking = TRUE]
    /\ UNCHANGED <<storeVars, msgLoop, wire, coordVars, now, extVars, unitVars>>

\* Peer.handleMessage, MsgUnchoke
RecvUnchoke(p) ==
    /\ IsConnected(p)
    /\ peers[p].kind # "honest" \/ peers[p].PeerChoking
    /\ peers' = [peers EXCEPT ![p].PeerChoking = FALSE]
    /\ UNCHANGED <<storeVars, msgLoop, wire, coordVars, now, extVars, unitVars>>

\* Peer.handleMessage, MsgBitfield
RecvBitfield(p, bf) ==
    /\ IsConnected(p)
    /\ \/ peers[p].kind # "honest"
       \/ /\ peers[p].bitfield = NilBytes
          /\ bf = FullBits(NewBitfield(Cardinality(DOMAIN pieces)),
                           Cardinality(DOMAIN pieces))
    /\ peers' = [peers EXCEPT ![p].bitfield = bf]
    /\ UNCHANGED <<storeVars, msgLoop, wire, coordVars, now, extVars, unitVars>>

\* Peer.handleMessage, MsgHave
RecvHave(p, index) ==
    /\ IsConnected(p)
    /\ peers[p].kind # "honest"
    /\ peers' = [peers EXCEPT ![p] = setPieceUnsafe(@, index)]
    /\ UNCHANGED <<storeVars, msgLoop, wire, coordVars, now, extVars, unitVars>>

\* Peer.receiveLoop / sendLoop ending on an I/O error or Stop: p.cancel().
Disconnect(p) ==
    /\ IsConnected(p)
    /\ peers[p].kind # "honest"
    /\ peers' = [peers EXCEPT ![p].status = "closed"]
    /\ UNCHANGED <<storeVars, msgLoop, wire, coordVars, now, extVars, unitVars>>

\* Manager.handlePeer returning on peer.Done(): the deferred removePeer.
removePeer(p) ==
    /\ peers[p].status = "closed"
    /\ peers' = [peers EXCEPT ![p].status = "removed"]
    /\ UNCHANGED <<storeVars, msgLoop, wire, coordVars, now, extVars, unitVars>>

-----------------------------------------------------------------------------
(* Block arrival: Manager.handlePieceData -> AddBlockData ->               *)
(* HandlePieceReceived, run by the single messageLoop goroutine            *)

\* First part of handlePieceData: SetBlockData and the IsComplete test.
\* When the piece is complete the loop still has to set the state and
\* start the verification (AddBlockDataFinish).
handlePieceData(index, begin, data) ==
    /\ msgLoop.pc = "idle"
    /\ LET r == SetBlockData(pieces[index], begin, data)
       IN  /\ pieces' = [pieces EXCEPT ![index] = r.piece]
           /\ stats' = IF r.ok THEN StatsBlockAdded(stats, data) ELSE stats
           /\ IF r.ok /\ IsComplete(r.piece)
              THEN /\ msgLoop' = [pc |-> "complete", piece |-> index,
                                  begin |-> begin, err |-> FALSE]
                   /\ UNCHANGED activeRequests
              ELSE /\ msgLoop' = [IdleLoop EXCEPT !.err = ~r.ok]
                   /\ activeRequests' =
                          HandlePieceReceived(activeRequests, index, begin)
    /\ UNCHANGED <<bitfield, disk, fs, verifiers, peers, progress, cycle, now>>

FreeSlots == {s \in DOMAIN verifiers : verifiers[s] = IdleSlot}

\* Second part: piece.State = Downloaded, go verifyAndStorePiece, and the
\* piece handler's HandlePieceReceived.
AddBlockDataFinish ==
    /\ msgLoop.pc = "complete"
    /\ FreeSlots # {}
    /\ LET s == CHOOSE t \in FreeSlots : \A u \in FreeSlots : t <= u
       IN  verifiers' = [verifiers EXCEPT ![s] =
                            [pc |-> "start", piece |-> msgLoop.piece,
                             data |-> <<>>]]
    /\ pieces' = [pieces EXCEPT ![msgLoop.piece].State = PieceStateDownloaded]
    /\ activeRequests' =
           HandlePieceReceived(activeRequests, msgLoop.piece, msgLoop.begin)
    /\ msgLoop' = IdleLoop
    /\ UNCHANGED <<bitfield, disk, fs, stats, peers, wire, progress, cycle, now,
                   extVars, unitVars>>

\* The payloads remote peer p may put in a PIECE for the block at blk: a
\* "seed" holds the torrent's bytes, an "any" peer sends what it likes.
Payloads(p, index, blk) ==
    {[len |-> pieces[index].Blocks[blk].Length, body |-> b] :
        b \in IF peers[p].kind = "seed" THEN {TrueBody(index, blk)}
              ELSE Bodies}

\* A PIECE message from any session, requested or not.
RecvPiece(p, index, blk, data) ==
    /\ IsConnected(p)
    /\ peers[p].kind # "honest"
    /\ handlePieceData(index, pieces[index].Blocks[blk].Begin, data)
    /\ UNCHANGED <<wire, extVars, unitVars>>

\* A PIECE message carrying any offset and any number of bytes.
RecvPieceAt(p, index, begin, data) ==
    /\ IsConnected(p)
    /\ peers[p].kind = "any"
    /\ handlePieceData(index, begin, data)
    /\ UNCHANGED <<wire, extVars, unitVars>>

\* A well-behaved peer answers its oldest REQUEST with the torrent's bytes.
HonestAnswer(p) ==
    /\ IsConnected(p)
    /\ peers[p].kind = "honest"
    /\ wire[p] # <<>>
    /\ LET key == Head(wire[p])
           blk == key[2] \div BlockSize
       IN  handlePieceData(key[1], key[2],
               [len |-> pieces[key[1]].Blocks[blk].Length,
                body |-> TrueBody(key[1], blk)])
    /\ wire' = [wire EXCEPT ![p] = Tail(@)]
    /\ UNCHANGED <<extVars, unitVars>>

-----------------------------------------------------------------------------
(* Manager.verifyAndStorePiece, one goroutine per slot *)

\* Manager.MarkPieceVerified, under the manager lock.
MarkPieceVerified(index) ==
    IF index < 0 \/ index >= Cardinality(DOMAIN pieces)
    THEN UNCHANGED <<pieces, bitfield, stats>>
    ELSE /\ pieces' = [pieces EXCEPT ![index].State = PieceStateVerified]
         /\ bitfield' = OrBit(bitfield, index)
         /\ stats' = StatsPieceVerified(stats, pieces[index])

\* A call of MarkPieceVerified from outside the verifier goroutines.
CallMarkPieceVerified(index) ==
    /\ MarkPieceVerified(index)
    /\ UNCHANGED <<disk, fs, verifiers, msgLoop, peers, wire, coordVars, now,
                   extVars, unitVars>>

\* piece.GetData(): returns when the piece is not complete, else keeps
\* the assembled bytes.
VerifyGetData(s) ==
    /\ verifiers[s].pc = "start"
    /\ LET piece == pieces[verifiers[s].piece]
       IN  verifiers' = [verifiers EXCEPT ![s] =
               IF IsComplete(piece)
               THEN [@ EXCEPT !.pc = "verify", !.data = GetData(piece)]
               ELSE IdleSlot]
    /\ UNCHANGED <<pieces, bitfield, disk, fs, stats, msgLoop, peers, wire,
                   coordVars, now, extVars, unitVars>>

\* A failed hash check resets the piece.
VerifyReset(index) ==
    pieces' = [pieces EXCEPT ![index] =
                  ClearBlocks([@ EXCEPT !.State = PieceStateMissing])]

\* diskManager.VerifyPiece, then the reset or diskManager.WritePiece.
VerifyCheck(s) ==
    /\ verifiers[s].pc = "verify"
    /\ LET index == verifiers[s].piece
           data == verifiers[s].data
       IN  IF ~VerifyPiece(index, data)
           THEN /\ VerifyReset(index)
                /\ verifiers' = [verifiers EXCEPT ![s] = IdleSlot]
                /\ UNCHANGED disk
           ELSE /\ disk' = [disk EXCEPT ![index] = data]
                /\ verifiers' = [verifiers EXCEPT ![s].pc = "mark"]
                /\ UNCHANGED pieces
    /\ UNCHANGED <<bitfield, stats, fs, msgLoop, peers, wire, coordVars, now,
                   extVars, unitVars>>

\* diskManager.WritePiece returning an error: the goroutine returns.
VerifyWriteError(s) ==
    /\ verifiers[s].pc = "verify"
    /\ VerifyPiece(verifiers[s].piece, verifiers[s].data)
    /\ verifiers' = [verifiers EXCEPT ![s] = IdleSlot]
    /\ UNCHANGED <<pieces, bitfield, disk, fs, stats, msgLoop, peers, wire,
                   coordVars, now, extVars, unitVars>>

\* m.MarkPieceVerified(pieceIndex) at the end of verifyAndStorePiece.
VerifyMark(s) ==
    /\ verifiers[s].pc = "mark"
    /\ MarkPieceVerified(verifiers[s].piece)
    /\ verifiers' = [verifiers EXCEPT ![s] = IdleSlot]
    /\ UNCHANGED <<disk, fs, msgLoop, peers, wire, coordVars, now, extVars, unitVars>>

-----------------------------------------------------------------------------
(* The pending-request book of the piece store *)

\* Manager.AddRequest: a no-op on an index out of range.
AddRequest(index, peerID, block) ==
    /\ IF index < 0 \/ index >= Cardinality(DOMAIN pieces)
       THEN UNCHANGED <<pieces, stats>>
       ELSE /\ pieces' = [pieces EXCEPT ![index] =
                   PieceAddRequest(@, peerID, block.Begin, block.Length)]
            /\ stats' = IF stats = NoStats THEN stats
                        ELSE [stats EXCEPT
                                !.ActiveRequests = SatAdd(@, 1, MaxCount)]
    /\ UNCHANGED <<bitfield, disk, fs, verifiers, msgLoop, peers, wire, coordVars,
                   now, extVars, unitVars>>

\* Manager.RemoveRequest: the counter never goes below zero.
RemoveRequest(index, peerID, begin, length) ==
    /\ IF index < 0 \/ index >= Cardinality(DOMAIN pieces)
       THEN UNCHANGED <<pieces, stats>>
       ELSE /\ pieces' = [pieces EXCEPT ![index] =
                   PieceRemoveRequest(@, peerID, begin, length)]
            /\ stats' = IF stats = NoStats THEN stats
                        ELSE [stats EXCEPT !.ActiveRequests =
                                IF @ > 0 THEN @ - 1 ELSE @]
    /\ UNCHANGED <<bitfield, disk, fs, verifiers, msgLoop, peers, wire, coordVars,
                   now, extVars, unitVars>>

-----------------------------------------------------------------------------
(* Coordinator.coordinationLoop and timeoutLoop *)

\* processDownloadCycle up to the interest update: the snapshot of the
\* peers and of the needed pieces, the two early returns, EnsureInterested.
CycleStart ==
    /\ cycle.pc = "idle"
    /\ LET snap == GetConnectedPeers
           neededPieces == GetNeededPieces
       IN  IF snap = {} \/ neededPieces = {}
           THEN UNCHANGED <<peers, cycle>>
           ELSE /\ peers' = [p \in PeerIds |->
                                IF p \in snap
                                THEN EnsureInterested(peers[p], neededPieces)
                                ELSE peers[p]]
                /\ cycle' = [pc |-> "request", needed |-> neededPieces,
                             todo |-> snap]
    /\ UNCHANGED <<storeVars, msgLoop, wire, activeRequests, progress, now, extVars, unitVars>>

\* The REQUESTs a well-behaved peer has still to answer: a REQUEST for a
\* block it already has queued adds nothing.
RECURSIVE Enqueue(_, _)
Enqueue(q, keys) ==
    IF keys = <<>> THEN q
    ELSE Enqueue(IF \E n \in DOMAIN q : q[n] = Head(keys) THEN q
                 ELSE Append(q, Head(keys)),
                 Tail(keys))

\* One iteration of the loop over the peers, in map order.
CycleRequest(p, sendOk) ==
    /\ cycle.pc = "request"
    /\ p \in cycle.todo
    /\ IF CanDownload(peers[p])
       THEN LET r == requestPiecesFromPeer(p, sendOk, cycle.needed)
            IN  /\ activeRequests' = r.ar
                /\ wire' = IF peers[p].kind = "honest"
                           THEN [wire EXCEPT ![p] = Enqueue(@, r.sent)]
                           ELSE wire
       ELSE UNCHANGED <<activeRequests, wire>>
    /\ cycle' = [cycle EXCEPT !.todo = @ \ {p}]
    /\ UNCHANGED <<storeVars, msgLoop, peers, progress, now, extVars, unitVars>>

\* Coordinator.updateProgress, the last statement of the cycle.
updateProgress ==
    /\ cycle.pc = "request"
    /\ cycle.todo = {}
    /\ progress' = [downloadedPieces |-> GetProgressCounts.downloaded,
                    totalPieces |-> GetProgressCounts.total]
    /\ cycle' = IdleCycle
    /\ UNCHANGED <<storeVars, msgLoop, peers, wire, activeRequests, now, extVars, unitVars>>

\* A sweep that also evicts a request exactly as old as the timeout.
TimedOutAtDeadline(ar) ==
    {k \in DOMAIN ar : now - ar[k].RequestedAt >= requestTimeout}

\* now.Sub(req.RequestedAt) > c.requestTimeout
TimedOut(ar) ==
    {k \in DOMAIN ar : now - ar[k].RequestedAt > requestTimeout}

\* Coordinator.cleanupTimedOutRequests
cleanupTimedOutRequests ==
    /\ activeRequests' = RemoveKeys(activeRequests, TimedOut(activeRequests))
    /\ UNCHANGED <<storeVars, msgLoop, peers, wire, progress, cycle, now, extVars, unitVars>>

\* Time passes.
Tick ==
    /\ now < MaxTicks * TimeStep
    /\ now' = now + TimeStep
    /\ UNCHANGED <<storeVars, msgLoop, peers, wire, coordVars, extVars, unitVars>>

-----------------------------------------------------------------------------
(* internal/peer: the methods of Peer that send, and sendLoop *)

\* A wire message; the fields a message does not have are 0 or empty.
\* Payload is the bitfield of a BITFIELD and the block of a PIECE.
Message(id, index, begin, length) ==
    [ID |-> id, Index |-> index, Begin |-> begin, Length |-> length,
     Payload |-> <<>>]

NewRequestMessage(index, begin, length) ==
    Message("request", index, begin, length)

\* The cases of the select in Peer.SendMessage that may be taken: the send
\* when sendCh has room, ctx.Done once the session is cancelled, time.After
\* when sendCh stayed full.
SendOutcomes(p) ==
    (IF Len(sendCh[p]) < SendChCap THEN {"sent"} ELSE {"full"})
        \cup (IF IsConnected(p) THEN {} ELSE {"closed"})

\* Peer.SendMessage, the last statement of every sending method.
SendMessage(p, outcome) ==
    /\ call[p].pc = "send"
    /\ outcome \in SendOutcomes(p)
    /\ sendCh' = IF outcome = "sent"
                 THEN [sendCh EXCEPT ![p] = Append(@, call[p].msg)]
                 ELSE sendCh
    /\ call' = [call EXCEPT ![p] =
                   [@ EXCEPT !.pc = "idle",
                             !.err = CASE outcome = "sent" -> ""
                                       [] outcome = "closed" ->
                                              "peer connection closed"
                                       [] outcome = "full" ->
                                              "send channel full"]]
    /\ UNCHANGED <<storeVars, msgLoop, peers, wire, coordVars, now, pool,
                   rx, unitVars>>

\* Peer.RequestPiece up to its return or its call of SendMessage.
BeginRequestPiece(p, index, begin, length) ==
    /\ peers[p].status \in {"alive", "closed"}
    /\ call[p].pc = "idle"
    /\ call' = [call EXCEPT ![p] =
                   IF peers[p].PeerChoking
                   THEN [pc |-> "idle", op |-> "RequestPiece",
                         msg |-> NewRequestMessage(index, begin, length),
                         err |-> "peer is choking us", changed |-> FALSE]
                   ELSE [pc |-> "send", op |-> "RequestPiece",
                         msg |-> NewRequestMessage(index, begin, length),
                         err |-> "", changed |-> FALSE]]
    /\ UNCHANGED <<storeVars, msgLoop, peers, wire, coordVars, now, sendCh, pool,
                   rx, unitVars>>

\* Choke, Unchoke, Interested and NotInterested: the flag each one sets
\* and the message it sends.
FlagOps == {"Choke", "Unchoke", "Interested", "NotInterested"}

FlagMessage(op) ==
    CASE op = "Choke" -> Message("choke", 0, 0, 0)
      [] op = "Unchoke" -> Message("unchoke", 0, 0, 0)
      [] op = "Interested" -> Message("interested", 0, 0, 0)
      [] op = "NotInterested" -> Message("not_interested", 0, 0, 0)

SetFlag(peer, op) ==
    CASE op = "Choke" -> [peer EXCEPT !.AmChoking = TRUE]
      [] op = "Unchoke" -> [peer EXCEPT !.AmChoking = FALSE]
      [] op = "Interested" -> [peer EXCEPT !.AmInterested = TRUE]
      [] op = "NotInterested" -> [peer EXCEPT !.AmInterested = FALSE]

\* The first half of Peer.Choke / Unchoke / Interested / NotInterested:
\* the flag is set under the lock; SendMessage follows.
BeginFlagCall(p, op) ==
    /\ peers[p].status \in {"alive", "closed"}
    /\ call[p].pc = "idle"
    /\ peers' = [peers EXCEPT ![p] = SetFlag(@, op)]
    /\ call' = [call EXCEPT ![p] =
                   [pc |-> "send", op |-> op, msg |-> FlagMessage(op),
                    err |-> "", changed |-> SetFlag(peers[p], op) # peers[p]]]
    /\ UNCHANGED <<storeVars, msgLoop, wire, coordVars, now, sendCh, pool,
                   rx, unitVars>>

\* Peer.sendLoop: WriteMessage of the oldest queued message.
sendLoop(p) ==
    /\ IsConnected(p)
    /\ sendCh[p] # <<>>
    /\ sendCh' = [sendCh EXCEPT ![p] = Tail(@)]
    /\ UNCHANGED <<storeVars, msgLoop, peers, wire, coordVars, now, call, pool,
                   rx, unitVars>>

-----------------------------------------------------------------------------
(* internal/peer: Peer.receiveLoop *)

\* Peer.handleMessage on a well-formed message.
handleMessage(peer, msg) ==
    CASE msg.ID = "choke" -> [peer EXCEPT !.PeerChoking = TRUE]
      [] msg.ID = "unchoke" -> [peer EXCEPT !.PeerChoking = FALSE]
      [] msg.ID = "interested" -> [peer EXCEPT !.PeerInterested = TRUE]
      [] msg.ID = "not_interested" -> [peer EXCEPT !.PeerInterested = FALSE]
      [] msg.ID = "have" -> setPieceUnsafe(peer, msg.Index)
      [] msg.ID = "bitfield" -> [peer EXCEPT !.bitfield = msg.Payload]
      [] OTHER -> peer

isControlMessage(msg) ==
    msg.ID \in {"choke", "unchoke", "interested", "not_interested", "have",
                "bitfield"}

\* One round of Peer.receiveLoop: handleMessage, then the message is
\* forwarded on receiveCh unless it is a keep-alive or a control message;
\* it is dropped when receiveCh is full.
Receive(p, msg) ==
    /\ IsConnected(p)
    /\ peers[p].kind = "any"
    /\ peers' = [peers EXCEPT ![p] = handleMessage(@, msg)]
    /\ rx' = [rx EXCEPT ![p] =
                 [msg |-> msg,
                  ch  |-> IF /\ msg.ID # "keepalive"
                             /\ ~isControlMessage(msg)
                             /\ Len(rx[p].ch) < RecvChCap
                          THEN Append(rx[p].ch, msg)
                          ELSE rx[p].ch]]
    /\ UNCHANGED <<storeVars, msgLoop, wire, coordVars, now, sendCh, call, pool, unitVars>>

\* The messages a remote peer may send about piece 0 and its first block.
Messages ==
    {Message(id, 0, 0, 0) :
        id \in {"keepalive", "choke", "unchoke", "interested",
                "not_interested", "have", "port"}}
    \cup {[Message("bitfield", 0, 0, 0) EXCEPT !.Payload = bf] :
             bf \in PeerBitfields}
    \cup {Message(id, 0, 0, BlockSize) : id \in {"request", "cancel"}}
    \cup {[Message("piece", 0, 0, 0) EXCEPT !.Payload = d] :
             d \in {[len |-> BlockSize, body |-> b] : b \in Bodies}}

-----------------------------------------------------------------------------
(* internal/peer: Manager.messageLoop, serving the forwarded messages *)

NewPieceMessage(index, begin, block) ==
    [Message("piece", index, begin, 0) EXCEPT !.Payload = block]

\* Manager.hasPieceIndex, on the bitfield of the peer manager.
hasPieceIndex(index) == TestBit(pool.bitfield, index)

CanUpload(peer) == ~peer.AmChoking /\ peer.PeerInterested

\* Manager.ReadBlockFromDisk for a request of one whole block:
\* [ok, data].
ReadBlockFromDisk(index, begin, length) ==
    IF pieces[index].State # PieceStateVerified
    THEN [ok |-> FALSE, data |-> NilData]
    ELSE LET found == {b \in DOMAIN pieces[index].Blocks :
                          /\ pieces[index].Blocks[b].Begin = begin
                          /\ pieces[index].Blocks[b].Length = length}
         IN  IF found = {} THEN [ok |-> FALSE, data |-> NilData]
             ELSE [ok |-> TRUE,
                   data |-> disk[index][(CHOOSE b \in found : TRUE) + 1]]

\* Manager.handlePieceRequest; outcome is the case SendMessage takes.
handlePieceRequest(p, index, begin, length, outcome) ==
    LET r == ReadBlockFromDisk(index, begin, length)
    IN  IF hasPieceIndex(index) /\ CanUpload(peers[p]) /\ r.ok
        THEN /\ outcome \in SendOutcomes(p)
             /\ sendCh' = IF outcome = "sent"
                          THEN [sendCh EXCEPT ![p] =
                                  Append(@, NewPieceMessage(index, begin, r.data))]
                          ELSE sendCh
             /\ pool' = [pool EXCEPT !.BytesUploaded =
                                        SatAdd(@, r.data.len, MaxBytes)]
        ELSE /\ outcome = "sent"
             /\ UNCHANGED <<sendCh, pool>>

\* handlePeer forwarding the oldest message of a session and
\* handlePeerMessage serving it in the message loop.
handlePeerMessage(p, outcome) ==
    /\ rx[p].ch # <<>>
    /\ msgLoop.pc = "idle"
    /\ rx' = [rx EXCEPT ![p].ch = Tail(@)]
    /\ LET msg == Head(rx[p].ch)
       IN  CASE msg.ID = "request" ->
                  /\ handlePieceRequest(p, msg.Index, msg.Begin, msg.Length,
                                        outcome)
                  /\ UNCHANGED <<storeVars, msgLoop, peers, wire, coordVars,
                                 now, call, unitVars>>
             [] msg.ID = "piece" ->
                  /\ outcome = "sent"
                  /\ handlePieceData(msg.Index, msg.Begin, msg.Payload)
                  /\ UNCHANGED <<wire, sendCh, call, pool, unitVars>>
             [] OTHER ->
                  /\ outcome = "sent"
                  /\ UNCHANGED <<storeVars, msgLoop, peers, wire, coordVars,
                                 now, sendCh, call, pool, unitVars>>

\* Manager.setPiece
setPiece(index) == [pool EXCEPT !.bitfield = OrBit(@, index)]

\* Manager.BroadcastHave: a HAVE queued on every registered session that
\* takes it, then setPiece.
BroadcastHave(index) ==
    /\ sendCh' = [p \in PeerIds |->
                    IF Registered(p) /\ IsConnected(p)
                       /\ Len(sendCh[p]) < SendChCap
                    THEN Append(sendCh[p], Message("have", index, 0, 0))
                    ELSE sendCh[p]]
    /\ pool' = setPiece(index)
    /\ UNCHANGED <<storeVars, msgLoop, peers, wire, coordVars, now, call, rx, unitVars>>

-----------------------------------------------------------------------------
(* internal/peer: the registry Manager.peers and the goroutines that fill  *)
(* and empty it.  The registry is a Go map from address to session: a set  *)
(* of <<address, attempt>> entries written with MapPut.                    *)

MapHas(m, addr) == \E e \in m : e[1] = addr
MapPut(m, addr, s) == {e \in m : e[1] # addr} \cup {<<addr, s>>}
MapDelete(m, addr) == {e \in m : e[1] # addr}

\* len(m.peers)
GetActivePeerCount == Cardinality({e[1] : e \in pool.registry})
hasPeer(addr) == MapHas(pool.registry, addr)

\* ConnectToPeers starting go connectToPeer for one tracker peer, and the
\* hasPeer test at the head of connectToPeer.
connectToPeer(s, addr) ==
    /\ pool.attempts[s].pc = "idle"
    /\ GetActivePeerCount < MaxPeers
    /\ pool' = [pool EXCEPT !.attempts[s] =
                   [@ EXCEPT !.addr = addr,
                             !.pc = IF hasPeer(addr) THEN "done"
                                    ELSE "dialing"]]
    /\ UNCHANGED <<storeVars, msgLoop, peers, wire, coordVars, now, sendCh, call,
                   rx, unitVars>>

\* net.DialTimeout and peer.Start: on an error the goroutine returns.
dial(s, ok) ==
    /\ pool.attempts[s].pc = "dialing"
    /\ pool' = [pool EXCEPT !.attempts[s] =
                   IF ok THEN [@ EXCEPT !.pc = "started", !.connected = TRUE]
                   ELSE [@ EXCEPT !.pc = "done"]]
    /\ UNCHANGED <<storeVars, msgLoop, peers, wire, coordVars, now, sendCh, call,
                   rx, unitVars>>

addPeerRejectsFullOnly(reg, addr) ==
    Cardinality({e[1] : e \in reg}) < MaxPeers

\* The two tests of addPeer, under the manager lock.
addPeerAccepts(reg, addr) ==
    /\ ~(Cardinality({e[1] : e \in reg}) >= MaxPeers)
    /\ ~MapHas(reg, addr)

\* m.addPeer(peer) in connectToPeer: registered and handed to handlePeer,
\* or stopped.
addPeer(s) ==
    /\ pool.attempts[s].pc = "started"
    /\ LET addr == pool.attempts[s].addr
       IN  pool' =
             IF addPeerAccepts(pool.registry, addr)
             THEN [pool EXCEPT !.registry = MapPut(@, addr, s),
                               !.ActivePeers = @ + 1,
                               !.attempts[s].pc = "handling",
                               !.attempts[s].added = TRUE]
             ELSE [pool EXCEPT !.attempts[s].pc = "stopped",
                               !.attempts[s].connected = FALSE]
    /\ UNCHANGED <<storeVars, msgLoop, peers, wire, coordVars, now, sendCh, call,
                   rx, unitVars>>

\* The connection of a session ends (Peer.Stop, a read or write error).
PeerStop(s) ==
    /\ pool.attempts[s].pc \in {"started", "handling"}
    /\ pool.attempts[s].connected
    /\ pool' = [pool EXCEPT !.attempts[s].connected = FALSE]
    /\ UNCHANGED <<storeVars, msgLoop, peers, wire, coordVars, now, sendCh, call,
                   rx, unitVars>>

\* removePeer: delete(m.peers, addr), whatever session the entry holds.
DeleteEntry(m, addr, s) == MapDelete(m, addr)

\* handlePeer returning, and its deferred removePeer: the entry at the
\* session's address, if there is one, is deleted and ActivePeers is
\* decremented.
handlePeerExit(s) ==
    /\ pool.attempts[s].pc = "handling"
    /\ ~pool.attempts[s].connected
    /\ LET addr == pool.attempts[s].addr
           reg == DeleteEntry(pool.registry, addr, s)
       IN  pool' = [pool EXCEPT !.registry = reg,
                                !.ActivePeers =
                                    @ - Cardinality(pool.registry \ reg),
                                !.attempts[s].pc = "done"]
    /\ UNCHANGED <<storeVars, msgLoop, peers, wire, coordVars, now, sendCh, call,
                   rx, unitVars>>

\* Manager.cleanup: every entry whose session is not connected is deleted.
cleanup ==
    /\ LET reg == {e \in pool.registry : pool.attempts[e[2]].connected}
       IN  pool' = [pool EXCEPT !.registry = reg,
                                !.ActivePeers =
                                    @ - Cardinality(pool.registry \ reg)]
    /\ UNCHANGED <<storeVars, msgLoop, peers, wire, coordVars, now, sendCh, call,
                   rx, unitVars>>

-----------------------------------------------------------------------------
(* internal/disk: Manager.WritePiece and ReadPiece over the files of the   *)
(* torrent.  A file is the sequence of its bytes (byte k at k + 1); after  *)
(* Initialize every file has its declared length and holds zeros.          *)

RECURSIVE SumLengths(_, _)
SumLengths(files, k) ==
    IF k = 0 THEN 0 ELSE Len(files[k]) + SumLengths(files, k - 1)

\* Torrent.TotalLength, Torrent.NumPieces and Torrent.PieceSize.
TotalLength(d) == SumLengths(d.files, Len(d.files))

NumPiecesOf(d) == (TotalLength(d) + d.pieceLength - 1) \div d.pieceLength

PieceSize(d, index) ==
    IF index < 0 \/ index >= NumPiecesOf(d) THEN 0
    ELSE IF index < NumPiecesOf(d) - 1 THEN d.pieceLength
    ELSE IF TotalLength(d) % d.pieceLength = 0 THEN d.pieceLength
    ELSE TotalLength(d) % d.pieceLength

\* os.File.WriteAt inside the file, and os.File.ReadAt into the first n
\* bytes of a buffer (what lies past the end of the file is not read).
WriteAt(file, data, off) ==
    [k \in 1..Len(file) |->
        IF k > off /\ k <= off + Len(data) THEN data[k - off] ELSE file[k]]

ReadAt(file, buf, n, off) ==
    [k \in 1..Len(buf) |->
        IF k <= n /\ off + k <= Len(file) THEN file[off + k] ELSE buf[k]]

\* Manager.writeMultiFile: the loop over the files, from file k on.
RECURSIVE writeLoop(_, _, _, _, _, _)
writeLoop(files, offset, data, k, currentOffset, dataOffset) ==
    IF k > Len(files) THEN files
    ELSE
      LET fileEnd == currentOffset + Len(files[k])
          fileWriteStart ==
              IF offset > currentOffset THEN offset - currentOffset ELSE 0
          rest == Len(data) - dataOffset
          bytesToWrite ==
              IF fileWriteStart + rest > Len(files[k])
              THEN Len(files[k]) - fileWriteStart ELSE rest
          written ==
              [files EXCEPT ![k] =
                  WriteAt(@, SubSeq(data, dataOffset + 1,
                                    dataOffset + bytesToWrite),
                          fileWriteStart)]
      IN  IF offset >= fileEnd
          THEN writeLoop(files, offset, data, k + 1, fileEnd, dataOffset)
          ELSE IF bytesToWrite <= 0 THEN files
          ELSE IF dataOffset + bytesToWrite >= Len(data) THEN written
          ELSE writeLoop(written, offset, data, k + 1, fileEnd,
                         dataOffset + bytesToWrite)

writeMultiFile(files, offset, data) == writeLoop(files, offset, data, 1, 0, 0)

\* Manager.WritePiece: the files after the write.
WritePiece(d, pieceIndex, data) ==
    LET pieceOffset == pieceIndex * d.pieceLength
    IN  IF d.single
        THEN [d.files EXCEPT ![1] = WriteAt(@, data, pieceOffset)]
        ELSE writeMultiFile(d.files, pieceOffset, data)

\* Manager.readMultiFile: the loop over the files, from file k on; buf is
\* the buffer being filled.
RECURSIVE readLoop(_, _, _, _, _, _)
readLoop(files, offset, buf, k, currentOffset, dataOffset) ==
    IF k > Len(files) THEN buf
    ELSE
      LET fileEnd == currentOffset + Len(files[k])
          fileReadStart ==
              IF offset > currentOffset THEN offset - currentOffset ELSE 0
          rest == Len(buf) - dataOffset
          bytesToRead ==
              IF fileReadStart + rest > Len(files[k])
              THEN Len(files[k]) - fileReadStart ELSE rest
          filled ==
              [j \in 1..Len(buf) |->
                  IF j > dataOffset /\ j <= dataOffset + bytesToRead
                  THEN files[k][fileReadStart + (j - dataOffset)]
                  ELSE buf[j]]
      IN  IF offset >= fileEnd
          THEN readLoop(files, offset, buf, k + 1, fileEnd, dataOffset)
          ELSE IF bytesToRead <= 0 THEN buf
          ELSE IF dataOffset + bytesToRead >= Len(buf) THEN filled
          ELSE readLoop(files, offset, filled, k + 1, fileEnd,
                        dataOffset + bytesToRead)

readMultiFile(files, offset, buf) == readLoop(files, offset, buf, 1, 0, 0)

\* Manager.ReadPiece: the bytes returned.
ReadPiece(d, pieceIndex) ==
    LET actualLength == PieceSize(d, pieceIndex)
        pieceOffset == pieceIndex * d.pieceLength
        data == [j \in 1..actualLength |-> 0]
    IN  IF d.single
        THEN ReadAt(d.files[1], data, actualLength, pieceOffset)
        ELSE readMultiFile(d.files, pieceOffset, data)

\* No piece written or read yet.
NoPiece == [index |-> -1, data |-> <<>>]

\* disk.NewManager and Initialize for a layout, the sequence of the file
\* lengths in manifest order.
NewDisk(single, layout) ==
    [single |-> single,
     pieceLength |-> DiskPieceLength,
     files |-> [k \in 1..Len(layout) |-> [j \in 1..layout[k] |-> 0]],
     last |-> NoPiece,
     out |-> NoPiece]

\* A call of WritePiece; last remembers what was written.
CallWritePiece(index, data) ==
    /\ fs' = [fs EXCEPT !.files = WritePiece(fs, index, data),
                        !.last = [index |-> index, data |-> data]]
    /\ UNCHANGED <<pieces, bitfield, disk, verifiers, stats, msgLoop, peers,
                   wire, coordVars, now, extVars, unitVars>>

\* A call of ReadPiece; out is what it returned.
CallReadPiece(index) ==
    /\ fs' = [fs EXCEPT !.out = [index |-> index,
                                 data |-> ReadPiece(fs, index)]]
    /\ UNCHANGED <<pieces, bitfield, disk, verifiers, stats, msgLoop, peers,
                   wire, coordVars, now, extVars, unitVars>>

-----------------------------------------------------------------------------
(* internal/peer: the wire format of a message.  A byte is a number in    *)
(* 0..255.  A []byte is kept run by run: the sequence of its maximal runs *)
(* of equal bytes, each with the byte b and the number n of repetitions,  *)
(* so that two byte strings are equal exactly when their run sequences    *)
(* are.  KeepAlive() is the nil *Message.                                 *)

MaxMessageLength == 131072

MsgChoke == 0
MsgUnchoke == 1
MsgInterested == 2
MsgNotInterested == 3
MsgHave == 4
MsgBitfield == 5
MsgRequest == 6
MsgPiece == 7
MsgCancel == 8
MsgPort == 9

\* n bytes b
Run(b, n) == IF n = 0 THEN <<>> ELSE <<[b |-> b, n |-> n]>>

\* append(x, y...)
Cat(x, y) ==
    IF x = <<>> THEN y
    ELSE IF y = <<>> THEN x
    ELSE IF x[Len(x)].b = y[1].b
    THEN SubSeq(x, 1, Len(x) - 1)
            \o <<[b |-> y[1].b, n |-> x[Len(x)].n + y[1].n]>> \o Tail(y)
    ELSE x \o y

\* []byte{s[1], s[2], ...}
RECURSIVE Bytes(_)
Bytes(s) == IF s = <<>> THEN <<>> ELSE Cat(Run(s[1], 1), Bytes(Tail(s)))

\* len(x)
RECURSIVE ByteLen(_)
ByteLen(x) == IF x = <<>> THEN 0 ELSE x[1].n + ByteLen(Tail(x))

\* x[k:] and x[:k], for k <= len(x)
RECURSIVE Drop(_, _)
Drop(x, k) ==
    IF k = 0 \/ x = <<>> THEN x
    ELSE IF x[1].n <= k THEN Drop(Tail(x), k - x[1].n)
    ELSE <<[b |-> x[1].b, n |-> x[1].n - k]>> \o Tail(x)

RECURSIVE Take(_, _)
Take(x, k) ==
    IF k = 0 \/ x = <<>> THEN <<>>
    ELSE IF x[1].n <= k THEN Cat(<<x[1]>>, Take(Tail(x), k - x[1].n))
    ELSE <<[b |-> x[1].b, n |-> k]>>

\* x[i], counted from 0
At(x, i) == Drop(x, i)[1].b

NewMessage(id, payload) == [ID |-> id, Payload |-> payload]
KeepAlive == [ID |-> -1, Payload |-> <<>>]

\* binary.BigEndian.PutUint32, Uint32 and PutUint16.  A uint32 of 2^31 or
\* more reads as MaxInt: it is only compared with lengths far below that.
MaxInt == Pow2(30) - 1 + Pow2(30)
PutUint32(n) ==
    Bytes(<<(n \div 16777216) % 256, (n \div 65536) % 256, (n \div 256) % 256,
            n % 256>>)
Uint32(x) ==
    IF At(x, 0) >= 128 THEN MaxInt
    ELSE At(x, 0) * 16777216 + At(x, 1) * 65536 + At(x, 2) * 256 + At(x, 3)
PutUint16(n) == Bytes(<<(n \div 256) % 256, n % 256>>)

\* Message.Serialize: the length prefix counts the id and the payload.
Serialize(m) ==
    IF m = KeepAlive THEN Bytes(<<0, 0, 0, 0>>)
    ELSE LET length == 1 + ByteLen(m.Payload)
         IN  Cat(Cat(PutUint32(length), Run(m.ID, 1)), m.Payload)

LengthLimitOff(length) == FALSE

\* The length test of ReadMessage.
TooLarge(length) == length > MaxMessageLength

\* ReadMessage on a reader that holds the bytes r and then ends: the message
\* and the error it returns, and the bytes it leaves in the reader.  A
\* failing io.ReadFull has consumed what there was.
ReadMessage(r) ==
    IF ByteLen(r) < 4
    THEN [msg |-> KeepAlive, err |-> "failed to read message length",
          rest |-> <<>>]
    ELSE LET length == Uint32(Take(r, 4))
         IN  IF length = 0
             THEN [msg |-> KeepAlive, err |-> "", rest |-> Drop(r, 4)]
             ELSE IF TooLarge(length)
             THEN [msg |-> KeepAlive, err |-> "message too large",
                   rest |-> Drop(r, 4)]
             ELSE IF ByteLen(r) - 4 < length
             THEN [msg |-> KeepAlive, err |-> "failed to read message",
                   rest |-> <<>>]
             ELSE LET messageBuf == Take(Drop(r, 4), length)
                  IN  [msg |-> NewMessage(At(messageBuf, 0),
                                          Drop(messageBuf, 1)),
                       err |-> "",
                       rest |-> Drop(r, 4 + length)]

\* WriteMessage into an empty buffer: written remembers the message.
CallWriteMessage(m) ==
    /\ conn' = [buf |-> Serialize(m), written |-> <<m>>, frame |-> <<>>,
                out |-> <<>>]
    /\ UNCHANGED <<storeVars, msgLoop, peers, wire, coordVars, now, extVars,
                   strategy, locks>>

\* The remote end writes bytes of its own choice.
RemoteWrite(bytes) ==
    /\ conn' = [buf |-> bytes, written |-> <<>>, frame |-> <<>>, out |-> <<>>]
    /\ UNCHANGED <<storeVars, msgLoop, peers, wire, coordVars, now, extVars,
                   strategy, locks>>

\* A call of ReadMessage: frame is what the reader held, out the result.
CallReadMessage ==
    /\ conn.out = <<>>
    /\ conn' = [conn EXCEPT !.buf = ReadMessage(conn.buf).rest,
                            !.frame = conn.buf,
                            !.out = <<[msg |-> ReadMessage(conn.buf).msg,
                                       err |-> ReadMessage(conn.buf).err]>>]
    /\ UNCHANGED <<storeVars, msgLoop, peers, wire, coordVars, now, extVars,
                   strategy, locks>>

-----------------------------------------------------------------------------
(* internal/peer: Peer.EnsureInterested as the coordinator calls it *)

\* Peer.EnsureInterested(neededPieces) up to its return of nil or to the
\* SendMessage of Interested / NotInterested.
CallEnsureInterested(p, neededPieces) ==
    /\ peers[p].status \in {"alive", "closed"}
    /\ call[p].pc = "idle"
    /\ LET shouldBeInterested == NeedsPieces(peers[p], neededPieces)
       IN  IF shouldBeInterested /\ ~peers[p].AmInterested
           THEN BeginFlagCall(p, "Interested")
           ELSE IF ~shouldBeInterested /\ peers[p].AmInterested
           THEN BeginFlagCall(p, "NotInterested")
           ELSE /\ call' = [call EXCEPT ![p] =
                               [pc |-> "done", op |-> "EnsureInterested",
                                msg |-> <<>>, err |-> "", changed |-> FALSE]]
                /\ UNCHANGED <<storeVars, msgLoop, peers, wire, coordVars,
                               now, sendCh, pool, rx, unitVars>>

\* EnsureInterested returning nil without a message.
ReturnNil(p) ==
    /\ call[p].pc = "done"
    /\ call' = [call EXCEPT ![p] = [@ EXCEPT !.pc = "idle"]]
    /\ UNCHANGED <<storeVars, msgLoop, peers, wire, coordVars, now, sendCh,
                   pool, rx, unitVars>>

-----------------------------------------------------------------------------
(* internal/piece: the selection strategies.  A strategy is its name and,  *)
(* for rarest-first and smart, the map peerBitfields; arg and out are the  *)
(* bitfield of the last SelectPiece call and the index it returned (-1 for *)
(* nil); out is -2 when there was no call since the map last changed.      *)

\* The pieces SelectPiece does not skip.
Candidates(ps, peerBitfield) ==
    {i \in DOMAIN ps : /\ ps[i].State # PieceStateVerified
                       /\ peerHasPiece(peerBitfield, i)}

Highest(S) == IF S = {} THEN -1 ELSE CHOOSE i \in S : \A j \in S : i >= j

\* The first piece a loop over the pieces in index order meets in S.
Lowest(S) == IF S = {} THEN -1 ELSE CHOOSE i \in S : \A j \in S : i <= j

\* SequentialStrategy.SelectPiece
SequentialSelectPiece(ps, peerBitfield) == Lowest(Candidates(ps, peerBitfield))

RarityIgnored(peerBitfields, i) == 0

\* The count of the bitfields in peerBitfields that have piece i.
Rarity(peerBitfields, i) ==
    Cardinality({id \in DOMAIN peerBitfields :
                    peerHasPiece(peerBitfields[id], i)})

\* The candidates of RarestFirstStrategy.SelectPiece, in index order.
RECURSIVE candidateList(_, _, _)
candidateList(ps, peerBitfields, S) ==
    IF S = {} THEN <<>>
    ELSE LET i == CHOOSE k \in S : \A j \in S : k >= j
         IN  Append(candidateList(ps, peerBitfields, S \ {i}),
                    [index |-> i, rarity |-> Rarity(peerBitfields, i)])

\* insertionSort of sort.Slice with less = rarity ascending: an element
\* moves left past the elements of greater rarity only.
RECURSIVE insertionSort(_)
insertionSort(c) ==
    IF Len(c) <= 1 THEN c
    ELSE LET done == insertionSort(SubSeq(c, 1, Len(c) - 1))
             x == c[Len(c)]
             keep == {k \in 1..Len(done) : done[k].rarity <= x.rarity}
             at == IF keep = {} THEN 0
                   ELSE CHOOSE k \in keep : \A j \in keep : k >= j
         IN  SubSeq(done, 1, at) \o <<x>> \o SubSeq(done, at + 1, Len(done))

\* sort.Slice of Go 1.19 and later on 13 elements (pdqsort_func): the
\* pivot is the median of the elements at 3, 6 and 9; a slice found in
\* order is left alone; otherwise the pivot is swapped to the front, the
\* rest is partitioned around it and both sides, of at most 12 elements,
\* are insertion-sorted.  Positions here count from 1.
less(c, x, y) == c[x].rarity < c[y].rarity
swap(c, x, y) == [c EXCEPT ![x] = c[y], ![y] = c[x]]
order2(c, x, y) == IF less(c, y, x) THEN <<y, x, 1>> ELSE <<x, y, 0>>

median(c, x, y, z) ==
    LET o1 == order2(c, x, y)
        o2 == order2(c, o1[2], z)
        o3 == order2(c, o1[1], o2[1])
    IN  [pivot |-> o3[2], swaps |-> o1[3] + o2[3] + o3[3]]

RECURSIVE partitionLoop(_, _, _)
partitionLoop(c, i, j) ==
    LET stopI == {k \in i..(j + 1) : k > j \/ ~less(c, k, 1)}
        i1 == CHOOSE k \in stopI : \A m \in stopI : k <= m
        stopJ == {k \in (i1 - 1)..j : k < i1 \/ less(c, k, 1)}
        j1 == CHOOSE k \in stopJ : \A m \in stopJ : k >= m
    IN  IF i1 > j1 THEN [c |-> swap(c, j1, 1), mid |-> j1]
        ELSE partitionLoop(swap(c, i1, j1), i1 + 1, j1 - 1)

pdqsort13(c) ==
    LET m == median(c, 4, 7, 10)
        sorted == \A k \in 2..Len(c) : ~less(c, k, k - 1)
        p == partitionLoop(swap(c, 1, m.pivot), 2, Len(c))
    IN  IF m.swaps = 0 /\ sorted THEN c
        ELSE insertionSort(SubSeq(p.c, 1, p.mid - 1))
                \o <<p.c[p.mid]>>
                \o insertionSort(SubSeq(p.c, p.mid + 1, Len(c)))

\* The element sort.Slice may leave first.  sort.Slice is not stable: up to
\* 12 elements it is the insertion sort; beyond 13 any element of least
\* rarity may come first.
sortSliceFirst(c) ==
    IF Len(c) <= 12 THEN {insertionSort(c)[1]}
    ELSE IF Len(c) = 13 THEN {pdqsort13(c)[1]}
    ELSE {c[k] : k \in {j \in 1..Len(c) :
                           \A m \in 1..Len(c) : c[j].rarity <= c[m].rarity}}

\* RarestFirstStrategy.SelectPiece: the indices it may return.
RarestFirstSelectPiece(ps, peerBitfields, peerBitfield) ==
    LET candidates == candidateList(ps, peerBitfields,
                                    Candidates(ps, peerBitfield))
    IN  IF Len(candidates) = 0 THEN {-1}
        ELSE {c.index : c \in sortSliceFirst(candidates)}

\* EndGameStrategy.SelectPiece with base strategy rarest-first
EndGameSelectPiece(threshold, ps, peerBitfields, peerBitfield) ==
    LET missing == Cardinality({i \in DOMAIN ps :
                                   ps[i].State # PieceStateVerified})
    IN  IF missing <= threshold
        THEN {Lowest(Candidates(ps, peerBitfield))}
        ELSE RarestFirstSelectPiece(ps, peerBitfields, peerBitfield)

SmartWithoutSequential(completed) == FALSE

\* The first test of SmartStrategy.SelectPiece, sequentialThreshold = 4
SmartUsesSequential(completed) == completed < 4

\* SmartStrategy.SelectPiece as NewSmartStrategy configures it:
\* endGameThreshold 10, and an end game of threshold 5 over rarest-first.
SmartSelectPiece(ps, peerBitfields, peerBitfield) ==
    LET completed == Cardinality({i \in DOMAIN ps :
                                     ps[i].State = PieceStateVerified})
        total == Cardinality(DOMAIN ps)
        remaining == total - completed
        piece == SequentialSelectPiece(ps, peerBitfield)
    IN  IF SmartUsesSequential(completed) /\ piece # -1 THEN {piece}
        ELSE IF remaining <= 10
        THEN EndGameSelectPiece(5, ps, peerBitfields, peerBitfield)
        ELSE RarestFirstSelectPiece(ps, peerBitfields, peerBitfield)

\* A random choice among all the pieces of the torrent.
RandomAnyPiece(ps, peerBitfield) == DOMAIN ps

\* RandomStrategy.SelectPiece: available[s.rand.Intn(len(available))], any
\* of the candidates.
RandomSelectPiece(ps, peerBitfield) ==
    IF Candidates(ps, peerBitfield) = {} THEN {-1}
    ELSE Candidates(ps, peerBitfield)

\* EndGameStrategy.SelectPiece over a SequentialStrategy
EndGameOverSequential(threshold, ps, peerBitfield) ==
    LET missing == Cardinality({i \in DOMAIN ps :
                                   ps[i].State # PieceStateVerified})
    IN  IF missing <= threshold
        THEN {Lowest(Candidates(ps, peerBitfield))}
        ELSE {SequentialSelectPiece(ps, peerBitfield)}

\* s.priorities[i], 0 when not set
PriorityOf(priorities, i) ==
    IF i \in DOMAIN priorities THEN priorities[i] ELSE 0

\* The candidates of PriorityStrategy.SelectPiece in index order; the sort
\* by descending priority is the ascending sort of the negated priority.
RECURSIVE priorityList(_, _)
priorityList(priorities, S) ==
    IF S = {} THEN <<>>
    ELSE LET i == CHOOSE k \in S : \A j \in S : k >= j
         IN  Append(priorityList(priorities, S \ {i}),
                    [index |-> i, rarity |-> 0 - PriorityOf(priorities, i)])

\* PriorityStrategy.SelectPiece over a SequentialStrategy
PrioritySelectPiece(ps, priorities, peerBitfield) ==
    LET candidates == priorityList(priorities, Candidates(ps, peerBitfield))
    IN  IF Len(candidates) = 0 THEN {-1}
        ELSE {IF c.rarity = 0 THEN SequentialSelectPiece(ps, peerBitfield)
              ELSE c.index : c \in sortSliceFirst(candidates)}

SelectPiece(s, ps, peerBitfield) ==
    CASE s.name = "sequential" -> {SequentialSelectPiece(ps, peerBitfield)}
      [] s.name = "rarest-first" ->
            RarestFirstSelectPiece(ps, s.peerBitfields, peerBitfield)
      [] s.name = "smart" ->
            SmartSelectPiece(ps, s.peerBitfields, peerBitfield)
      [] s.name = "random" -> RandomSelectPiece(ps, peerBitfield)
      [] s.name = "endgame" ->
            EndGameOverSequential(s.threshold, ps, peerBitfield)
      [] s.name = "priority" ->
            PrioritySelectPiece(ps, s.priorities, peerBitfield)

\* NewEndGameStrategy(2, NewSequentialStrategy()) and
\* NewPriorityStrategy(NewSequentialStrategy()) are the two the repository
\* constructs.
NewStrategy(name) ==
    [name |-> name, peerBitfields |-> <<>>, arg |-> NilBytes, out |-> -2,
     threshold |-> 2, priorities |-> <<>>]

\* PriorityStrategy.SetPriority
SetPriority(pieceIndex, priority) ==
    /\ strategy.name = "priority"
    /\ strategy' = [strategy EXCEPT !.priorities =
                                        [i \in DOMAIN @ \cup {pieceIndex} |->
                                            IF i = pieceIndex THEN priority
                                            ELSE @[i]],
                                    !.arg = NilBytes, !.out = -2]
    /\ UNCHANGED <<storeVars, msgLoop, peers, wire, coordVars, now, extVars,
                   conn, locks>>

\* UpdatePeerBitfield of RarestFirstStrategy and SmartStrategy
UpdatePeerBitfield(peerID, bf) ==
    /\ strategy.name \in {"rarest-first", "smart"}
    /\ strategy' = [strategy EXCEPT !.peerBitfields =
                                        [id \in DOMAIN @ \cup {peerID} |->
                                            IF id = peerID THEN bf ELSE @[id]],
                                    !.arg = NilBytes, !.out = -2]
    /\ UNCHANGED <<storeVars, msgLoop, peers, wire, coordVars, now, extVars,
                   conn, locks>>

\* RemovePeer of RarestFirstStrategy and SmartStrategy
RemovePeer(peerID) ==
    /\ strategy.name \in {"rarest-first", "smart"}
    /\ strategy' = [strategy EXCEPT !.peerBitfields =
                                        [id \in DOMAIN @ \ {peerID} |-> @[id]],
                                    !.arg = NilBytes, !.out = -2]
    /\ UNCHANGED <<storeVars, msgLoop, peers, wire, coordVars, now, extVars,
                   conn, locks>>

\* A call of SelectPiece on the pieces of the store.
CallSelectPiece(peerBitfield) ==
    /\ \E out \in SelectPiece(strategy, pieces, peerBitfield) :
          strategy' = [strategy EXCEPT !.arg = peerBitfield, !.out = out]
    /\ UNCHANGED <<storeVars, msgLoop, peers, wire, coordVars, now, extVars,
                   conn, locks>>

-----------------------------------------------------------------------------
(* Coordinator.requestPiecesFromPeer statement by statement: c.mu is held   *)
(* from its first statement to its return, the sessions and the piece      *)
(* store are read and written under their own locks                        *)

\* c.mu is held by requestPiecesFromPeer.
CoordinatorLocked == cycle.pc \in {"issue", "sending"}

\* The next peer of the cycle: CanDownload, then requestPiecesFromPeer up
\* to the loop over blockRequests.
BeginRequestPieces(p) ==
    /\ cycle.pc = "request"
    /\ p \in cycle.todo
    /\ LET activeCount == countActiveRequestsForPeer(activeRequests, p)
           bf == peers[p].bitfield
           availablePieces == {i \in cycle.needed : HasPiece(peers[p], i)}
           pieceIndex == SelectPieceForPeer(bf)
       IN  IF \/ ~CanDownload(peers[p])
              \/ activeCount >= maxRequestsPerPeer
              \/ bf = NilBytes
              \/ availablePieces = {}
              \/ pieceIndex = -1
           THEN cycle' = [cycle EXCEPT !.todo = @ \ {p}]
           ELSE cycle' = [pc |-> "issue", needed |-> cycle.needed,
                          todo |-> cycle.todo, peer |-> p,
                          piece |-> pieceIndex,
                          blocks |-> GetBlockRequests(pieceIndex), n |-> 1,
                          made |-> 0,
                          budget |-> requestsToMake(activeCount)]
    /\ UNCHANGED <<storeVars, msgLoop, peers, wire, activeRequests, progress,
                   now, extVars, unitVars>>

\* One turn of the loop up to SendMessage: the budget test, the lookup of
\* the block's entry, and the PeerChoking test of Peer.RequestPiece.
NextBlockRequest ==
    /\ cycle.pc = "issue"
    /\ IF cycle.n > Len(cycle.blocks) \/ cycle.made >= cycle.budget
       THEN cycle' = [pc |-> "request", needed |-> cycle.needed,
                      todo |-> cycle.todo \ {cycle.peer}]
       ELSE LET blockReq == cycle.blocks[cycle.n]
                requestKey == RequestKey(cycle.piece, blockReq.Begin)
            IN  IF \/ AlreadyRequested(activeRequests, requestKey)
                   \/ peers[cycle.peer].PeerChoking
                THEN cycle' = [cycle EXCEPT !.n = @ + 1]
                ELSE cycle' = [cycle EXCEPT !.pc = "sending"]
    /\ UNCHANGED <<storeVars, msgLoop, peers, wire, activeRequests, progress,
                   now, extVars, unitVars>>

\* SendMessage of the REQUEST and the rest of the turn: on success the
\* entry is recorded.
SendBlockRequest(outcome) ==
    /\ cycle.pc = "sending"
    /\ outcome \in SendOutcomes(cycle.peer)
    /\ LET blockReq == cycle.blocks[cycle.n]
           requestKey == RequestKey(cycle.piece, blockReq.Begin)
       IN  IF outcome = "sent"
           THEN /\ sendCh' = [sendCh EXCEPT ![cycle.peer] =
                                Append(@, NewRequestMessage(cycle.piece,
                                              blockReq.Begin, blockReq.Length))]
                /\ activeRequests' =
                       PutKey(activeRequests, requestKey,
                              [PieceIndex  |-> cycle.piece,
                               Begin       |-> blockReq.Begin,
                               Length      |-> blockReq.Length,
                               RequestedAt |-> now,
                               Peer        |-> cycle.peer])
                /\ cycle' = [cycle EXCEPT !.pc = "issue", !.n = @ + 1,
                                          !.made = @ + 1]
           ELSE /\ cycle' = [cycle EXCEPT !.pc = "issue", !.n = @ + 1]
                /\ UNCHANGED <<sendCh, activeRequests>>
    /\ UNCHANGED <<storeVars, msgLoop, peers, wire, progress, now, call, pool,
                   rx, unitVars>>

\* Manager.handlePieceData up to the block-arrival hook: AddBlockData.  The
\* hook takes c.mu and so waits for requestPiecesFromPeer to return.
AddBlockData(p, index, begin, data) ==
    /\ IsConnected(p)
    /\ msgLoop.pc = "idle"
    /\ LET r == SetBlockData(pieces[index], begin, data)
       IN  /\ pieces' = [pieces EXCEPT ![index] = r.piece]
           /\ stats' = IF r.ok THEN StatsBlockAdded(stats, data) ELSE stats
           /\ msgLoop' = [pc |-> IF r.ok /\ IsComplete(r.piece)
                                 THEN "downloaded" ELSE "hook",
                          piece |-> index, begin |-> begin, err |-> ~r.ok]
    /\ UNCHANGED <<bitfield, disk, fs, verifiers, peers, wire, coordVars, now,
                   extVars, unitVars>>

\* AddBlockData on a complete piece: piece.State = Downloaded and
\* go verifyAndStorePiece.
StartVerification ==
    /\ msgLoop.pc = "downloaded"
    /\ FreeSlots # {}
    /\ LET s == CHOOSE t \in FreeSlots : \A u \in FreeSlots : t <= u
       IN  verifiers' = [verifiers EXCEPT ![s] =
                            [pc |-> "start", piece |-> msgLoop.piece,
                             data |-> <<>>]]
    /\ pieces' = [pieces EXCEPT ![msgLoop.piece].State = PieceStateDownloaded]
    /\ msgLoop' = [msgLoop EXCEPT !.pc = "hook"]
    /\ UNCHANGED <<bitfield, disk, fs, stats, peers, wire, coordVars, now,
                   extVars, unitVars>>

\* The block-arrival hook, Coordinator.HandlePieceReceived, once it has
\* c.mu.
BlockReceivedHook ==
    /\ msgLoop.pc = "hook"
    /\ ~CoordinatorLocked
    /\ activeRequests' =
           HandlePieceReceived(activeRequests, msgLoop.piece, msgLoop.begin)
    /\ msgLoop' = [IdleLoop EXCEPT !.err = msgLoop.err]
    /\ UNCHANGED <<storeVars, peers, wire, progress, cycle, now, extVars,
                   unitVars>>

-----------------------------------------------------------------------------
(* Manager.handlePieceData on any piece index *)

\* The process ended on a run-time panic that no goroutine recovers.
Panicked == msgLoop.pc = "panic"

\* A PIECE message carrying any index.  AddBlockData reads
\* m.pieces[pieceIndex] before any test: m.pieces is a slice, so an index
\* outside it is a run-time panic in the message loop's goroutine.
RecvPieceIndexed(p, index, begin, data) ==
    /\ IsConnected(p)
    /\ peers[p].kind = "any"
    /\ msgLoop.pc = "idle"
    /\ IF index \in DOMAIN pieces
       THEN /\ handlePieceData(index, begin, data)
            /\ UNCHANGED <<wire, extVars, unitVars>>
       ELSE /\ msgLoop' = [pc |-> "panic", piece |-> index, begin |-> -1,
                           err |-> FALSE]
            /\ UNCHANGED <<storeVars, peers, wire, coordVars, now, extVars,
                           unitVars>>

-----------------------------------------------------------------------------
(* internal/peer: Peer.receiveLoop on the bytes of the connection *)

\* The bytes of x one by one.
RECURSIVE Expand(_)
Expand(x) ==
    IF x = <<>> THEN <<>>
    ELSE [i \in 1..x[1].n |-> x[1].b] \o Expand(Tail(x))

\* The error of ParseHave, ParseRequest, ParsePiece and ParseCancel: a
\* payload of the wrong length.  ParseBitfield accepts every payload.
ParseError(m) ==
    CASE m.ID = MsgHave -> ByteLen(m.Payload) # 4
      [] m.ID \in {MsgRequest, MsgCancel} -> ByteLen(m.Payload) # 12
      [] m.ID = MsgPiece -> ByteLen(m.Payload) < 8
      [] OTHER -> FALSE

\* A message that parses, with its fields read.
Decode(m) ==
    CASE m = KeepAlive -> Message("keepalive", 0, 0, 0)
      [] m.ID = MsgChoke -> Message("choke", 0, 0, 0)
      [] m.ID = MsgUnchoke -> Message("unchoke", 0, 0, 0)
      [] m.ID = MsgInterested -> Message("interested", 0, 0, 0)
      [] m.ID = MsgNotInterested -> Message("not_interested", 0, 0, 0)
      [] m.ID = MsgHave -> Message("have", Uint32(m.Payload), 0, 0)
      [] m.ID = MsgBitfield ->
             [Message("bitfield", 0, 0, 0) EXCEPT !.Payload = Expand(m.Payload)]
      [] m.ID \in {MsgRequest, MsgCancel} ->
             Message(IF m.ID = MsgRequest THEN "request" ELSE "cancel",
                     Uint32(Take(m.Payload, 4)),
                     Uint32(Take(Drop(m.Payload, 4), 4)),
                     Uint32(Drop(m.Payload, 8)))
      [] m.ID = MsgPiece ->
             NewPieceMessage(Uint32(Take(m.Payload, 4)),
                             Uint32(Take(Drop(m.Payload, 4), 4)),
                             [len |-> ByteLen(m.Payload) - 8,
                              body |-> IF ByteLen(m.Payload) = 8 THEN 0
                                       ELSE At(m.Payload, 8)])
      [] OTHER -> Message("port", 0, 0, 0)

\* One round of Peer.receiveLoop on a connection that holds bytes and then
\* ends.  An error of ReadMessage or of handleMessage ends the loop, whose
\* deferred p.cancel() closes the session.  handleMessage parses only HAVE
\* and BITFIELD; every other message is forwarded as it is, and
\* handlePeerMessage returns at once when ParseRequest, ParsePiece or
\* ParseCancel refuses it.
receiveLoop(p, bytes) ==
    /\ IsConnected(p)
    /\ peers[p].kind = "any"
    /\ LET r == ReadMessage(bytes)
           m == r.msg
           control == m # KeepAlive /\ m.ID \in MsgChoke..MsgBitfield
           forwarded == IF ParseError(m)
                        THEN [ID |-> "unparsed", wire |-> m]
                        ELSE Decode(m)
       IN  /\ peers' =
                 IF r.err # "" \/ (m # KeepAlive /\ control /\ ParseError(m))
                 THEN [peers EXCEPT ![p].status = "closed"]
                 ELSE IF control
                 THEN [peers EXCEPT ![p] = handleMessage(@, Decode(m))]
                 ELSE peers
           /\ rx' = [rx EXCEPT ![p] =
                        [msg |-> [ID |-> "frame", bytes |-> bytes],
                         ch  |-> IF /\ r.err = ""
                                    /\ m # KeepAlive
                                    /\ ~control
                                    /\ Len(rx[p].ch) < RecvChCap
                                 THEN Append(rx[p].ch, forwarded)
                                 ELSE rx[p].ch]]
    /\ UNCHANGED <<storeVars, msgLoop, wire, coordVars, now, sendCh, call,
                   pool, unitVars>>

-----------------------------------------------------------------------------
(* internal/peer: the read deadline of a session, in seconds *)

MessageTimeout == 30
ReadIdleTimeout == 300

\* The connection of a session whose receiveLoop is between two reads:
\* no deadline is set and the last frame was read at time lastFrame.
NewReader == [pc |-> "loop", readDeadline |-> -1, lastFrame |-> 0]

\* receiveLoop up to the blocking read: p.conn.SetReadDeadline(now + 5 min),
\* then ReadMessage, which begins with conn.SetReadDeadline(now +
\* MessageTimeout) because p.conn is a net.Conn.  The second call replaces
\* the deadline of the first.
BeginRead(p) ==
    /\ IsConnected(p)
    /\ conn.pc = "loop"
    /\ LET loopDeadline == now + ReadIdleTimeout
           readDeadline == now + MessageTimeout
       IN  conn' = [conn EXCEPT !.pc = "read", !.readDeadline = readDeadline]
    /\ UNCHANGED <<storeVars, msgLoop, peers, wire, coordVars, now, extVars,
                   strategy, locks>>

\* A frame arrives before the deadline: ReadMessage returns it (its
\* deferred SetReadDeadline(time.Time{}) clears the deadline) and
\* handleMessage runs.
FrameRead(p, msg) ==
    /\ IsConnected(p)
    /\ conn.pc = "read"
    /\ now < conn.readDeadline
    /\ conn' = [pc |-> "loop", readDeadline |-> -1, lastFrame |-> now]
    /\ peers' = [peers EXCEPT ![p] = handleMessage(@, msg)]
    /\ UNCHANGED <<storeVars, msgLoop, wire, coordVars, now, extVars,
                   strategy, locks>>

\* The deadline passes with no frame: io.ReadFull returns a timeout error,
\* receiveLoop returns and its deferred p.cancel() closes the session.
ReadTimedOut(p) ==
    /\ IsConnected(p)
    /\ conn.pc = "read"
    /\ now >= conn.readDeadline
    /\ conn' = [conn EXCEPT !.pc = "timeout"]
    /\ peers' = [peers EXCEPT ![p].status = "closed"]
    /\ UNCHANGED <<storeVars, msgLoop, wire, coordVars, now, extVars,
                   strategy, locks>>

\* d seconds pass; a blocked read does not outlive its deadline.
Elapse(d, limit) ==
    /\ now + d <= limit
    /\ conn.pc = "read" => now < conn.readDeadline
    /\ now' = now + d
    /\ UNCHANGED <<storeVars, msgLoop, peers, wire, coordVars, extVars,
                   unitVars>>

-----------------------------------------------------------------------------
(* sync.RWMutex, and the lock calls of the operations in program order *)

\* A sync.RWMutex: w is the goroutine inside Lock (it has announced itself,
\* so RLock blocks from then on), held whether it has the lock, r the read
\* locks each goroutine holds.
NewRWMutex(threads) == [w |-> "", held |-> FALSE, r |-> [t \in threads |-> 0]]

L(method, mu) == <<method, mu>>

\* piece.Piece
IsCompleteLocks == <<L("RLock", "piece.mu"), L("RUnlock", "piece.mu")>>
GetMissingBlocksLocks == <<L("RLock", "piece.mu"), L("RUnlock", "piece.mu")>>
SetBlockDataLocks == <<L("Lock", "piece.mu"), L("Unlock", "piece.mu")>>
GetDataLocks ==
    <<L("RLock", "piece.mu")>> \o IsCompleteLocks \o <<L("RUnlock", "piece.mu")>>

\* piece.Manager, on one piece that is complete
MarkPieceVerifiedLocks ==
    <<L("Lock", "m.mu"), L("Lock", "piece.mu"), L("Unlock", "piece.mu"),
      L("Lock", "stats.mu"), L("Unlock", "stats.mu"), L("Unlock", "m.mu")>>
AddBlockDataLocks ==
    <<L("RLock", "m.mu"), L("RUnlock", "m.mu")>> \o SetBlockDataLocks
      \o <<L("Lock", "stats.mu"), L("Unlock", "stats.mu")>> \o IsCompleteLocks
      \o <<L("Lock", "piece.mu"), L("Unlock", "piece.mu")>>
verifyAndStorePieceLocks ==
    <<L("RLock", "m.mu"), L("RUnlock", "m.mu")>> \o GetDataLocks
      \o MarkPieceVerifiedLocks
GetPieceInfoLocks ==
    <<L("RLock", "m.mu"), L("RLock", "piece.mu")>> \o GetMissingBlocksLocks
      \o <<L("RUnlock", "piece.mu"), L("RUnlock", "m.mu")>>

\* peer.Peer and peer.Manager (the pool), with one session registered
GetStateLocks == <<L("RLock", "peer.mu"), L("RUnlock", "peer.mu")>>
GetPeersLocks == <<L("RLock", "pool.mu"), L("RUnlock", "pool.mu")>>
\* GetDownloadingPeers and GetUploadingPeers: GetPeers, then CanDownload or
\* CanUpload, which call GetState.
GetStatsLocks ==
    <<L("RLock", "pool.stats.mu")>> \o GetPeersLocks \o GetStateLocks
      \o GetPeersLocks \o GetStateLocks \o <<L("RUnlock", "pool.stats.mu")>>
addPeerLocks ==
    <<L("Lock", "pool.mu"), L("Lock", "pool.stats.mu"),
      L("Unlock", "pool.stats.mu"), L("Unlock", "pool.mu")>>
\* removePeer of a registered session; cleanup with one dead session.
removePeerLocks ==
    <<L("Lock", "pool.mu"), L("Lock", "pool.stats.mu"),
      L("Unlock", "pool.stats.mu"), L("Unlock", "pool.mu")>>
cleanupLocks ==
    <<L("Lock", "pool.mu"), L("Lock", "pool.stats.mu"),
      L("Unlock", "pool.stats.mu"), L("Unlock", "pool.mu")>>

Program(op) ==
    CASE op = "verifyAndStorePiece" -> verifyAndStorePieceLocks
      [] op = "AddBlockData" -> AddBlockDataLocks
      [] op = "GetPieceInfo" -> GetPieceInfoLocks
      [] op = "MarkPieceVerified" -> MarkPieceVerifiedLocks
      [] op = "GetStats" -> GetStatsLocks
      [] op = "addPeer" -> addPeerLocks
      [] op = "removePeer" -> removePeerLocks
      [] op = "cleanup" -> cleanupLocks

Running(t) == locks.th[t].pc # 0
Instr(t) == Program(locks.th[t].op)[locks.th[t].pc]

\* The goroutine has made its lock call and goes on; after the last one the
\* operation returns.
Proceed(t) ==
    [locks.th EXCEPT ![t].pc =
        IF @ = Len(Program(locks.th[t].op)) THEN 0 ELSE @ + 1]

\* A goroutine calls its operation.
CallOperation(t) ==
    /\ t \in DOMAIN locks.th
    /\ ~Running(t)
    /\ locks' = [locks EXCEPT !.th[t].pc = 1]
    /\ UNCHANGED <<storeVars, msgLoop, peers, wire, coordVars, now, extVars,
                   conn, strategy>>

\* RWMutex.RLock returns when no goroutine is inside Lock.
RLock(t) ==
    /\ t \in DOMAIN locks.th /\ Running(t)
    /\ Instr(t)[1] = "RLock"
    /\ LET mu == Instr(t)[2]
       IN  /\ locks.mu[mu].w = ""
           /\ locks' = [locks EXCEPT !.mu[mu].r[t] = @ + 1, !.th = Proceed(t)]
    /\ UNCHANGED <<storeVars, msgLoop, peers, wire, coordVars, now, extVars,
                   conn, strategy>>

RUnlock(t) ==
    /\ t \in DOMAIN locks.th /\ Running(t)
    /\ Instr(t)[1] = "RUnlock"
    /\ LET mu == Instr(t)[2]
       IN  locks' = [locks EXCEPT !.mu[mu].r[t] = @ - 1, !.th = Proceed(t)]
    /\ UNCHANGED <<storeVars, msgLoop, peers, wire, coordVars, now, extVars,
                   conn, strategy>>

\* RWMutex.Lock, first half: the goroutine gets the writers' mutex rw.w and
\* announces itself to the readers.
LockAnnounce(t) ==
    /\ t \in DOMAIN locks.th /\ Running(t)
    /\ Instr(t)[1] = "Lock"
    /\ LET mu == Instr(t)[2]
       IN  /\ locks.mu[mu].w = ""
           /\ locks' = [locks EXCEPT !.mu[mu].w = t]
    /\ UNCHANGED <<storeVars, msgLoop, peers, wire, coordVars, now, extVars,
                   conn, strategy>>

\* RWMutex.Lock, second half: it returns when the last reader has left.
LockAcquire(t) ==
    /\ t \in DOMAIN locks.th /\ Running(t)
    /\ Instr(t)[1] = "Lock"
    /\ LET mu == Instr(t)[2]
       IN  /\ locks.mu[mu].w = t
           /\ ~locks.mu[mu].held
           /\ \A u \in DOMAIN locks.th : locks.mu[mu].r[u] = 0
           /\ locks' = [locks EXCEPT !.mu[mu].held = TRUE, !.th = Proceed(t)]
    /\ UNCHANGED <<storeVars, msgLoop, peers, wire, coordVars, now, extVars,
                   conn, strategy>>

Unlock(t) ==
    /\ t \in DOMAIN locks.th /\ Running(t)
    /\ Instr(t)[1] = "Unlock"
    /\ LET mu == Instr(t)[2]
       IN  locks' = [locks EXCEPT !.mu[mu].w = "", !.mu[mu].held = FALSE,
                                  !.th = Proceed(t)]
    /\ UNCHANGED <<storeVars, msgLoop, peers, wire, coordVars, now, extVars,
                   conn, strategy>>

LockStep ==
    \/ \E t \in DOMAIN locks.th : CallOperation(t)
    \/ \E t \in DOMAIN locks.th : RLock(t)
    \/ \E t \in DOMAIN locks.th : RUnlock(t)
    \/ \E t \in DOMAIN locks.th : LockAnnounce(t)
    \/ \E t \in DOMAIN locks.th : LockAcquire(t)
    \/ \E t \in DOMAIN locks.th : Unlock(t)

\* The goroutines a waiting goroutine waits for: the one inside Lock when it
\* wants a read lock or the writers' mutex, the readers when it has
\* announced its Lock.
WaitsFor(t) ==
    IF ~Running(t) \/ Instr(t)[1] \notin {"RLock", "Lock"} THEN {}
    ELSE LET mu == locks.mu[Instr(t)[2]]
         IN  IF mu.w = t THEN {u \in DOMAIN locks.th : mu.r[u] > 0}
             ELSE IF mu.w # "" THEN {mu.w}
             ELSE {}

\* A set of goroutines each of which waits for a goroutine of the set, itself
\* included: none of them will ever go on.
Deadlocked(S) ==
    /\ S # {}
    /\ \A t \in S : WaitsFor(t) # {} /\ WaitsFor(t) \subseteq S

-----------------------------------------------------------------------------
(* Specifications *)

AnyPeers == [p \in PeerIds |-> "any"]
SeedPeers == [p \in PeerIds |-> "seed"]

SessionStep ==
    \E p \in PeerIds :
        \/ Connect(p)
        \/ RecvChoke(p)
        \/ RecvUnchoke(p)
        \/ \E bf \in PeerBitfields : RecvBitfield(p, bf)
        \/ \E i \in DOMAIN pieces : RecvHave(p, i)
        \/ Disconnect(p)
        \/ removePeer(p)

PieceStep ==
    \E p \in PeerIds : \E i \in DOMAIN pieces :
        \E blk \in DOMAIN pieces[i].Blocks : \E d \in Payloads(p, i, blk) :
            RecvPiece(p, i, blk, d)

VerifyStep ==
    \E s \in DOMAIN verifiers :
        VerifyGetData(s) \/ VerifyCheck(s) \/ VerifyMark(s)

\* The piece store fed by the sessions of the pool, no coordinator.
InitStore ==
    InitWith(NumPieces, BlocksPerPiece * BlockSize, BlockSize \div 2, AnyPeers)

NextStore ==
    \/ \E p \in PeerIds : Connect(p)
    \/ PieceStep
    \/ AddBlockDataFinish
    \/ VerifyStep
    \/ \E s \in DOMAIN verifiers : VerifyWriteError(s)

SpecStore == InitStore /\ [][NextStore]_vars

\* The piece store with its statistics and its pending-request book; the
\* first session sends PIECE messages of any offset, length and content.
InitCount ==
    /\ InitBase(1, BlocksPerPiece * BlockSize, 0,
                [p \in PeerIds |-> IF p = 1 THEN "any" ELSE "seed"])
    /\ stats = NewStatistics(1)
    /\ fs = NoFiles

\* Offsets a PIECE may carry: the block starts and one that is none.
Offsets(index) ==
    {pieces[index].Blocks[b].Begin : b \in DOMAIN pieces[index].Blocks}
        \cup {1}

\* Payloads of a full block and of one byte less.
AnyPayloads ==
    {[len |-> l, body |-> b] : l \in {BlockSize, BlockSize - 1}, b \in Bodies}

AnyPieceStep ==
    \E p \in PeerIds : \E i \in DOMAIN pieces :
        \E begin \in Offsets(i) : \E d \in AnyPayloads :
            RecvPieceAt(p, i, begin, d)

RequestBookStep ==
    \E i \in DOMAIN pieces : \E p \in PeerIds :
        \E blk \in DOMAIN pieces[i].Blocks :
            \/ AddRequest(i, p, pieces[i].Blocks[blk])
            \/ RemoveRequest(i, p, pieces[i].Blocks[blk].Begin,
                             pieces[i].Blocks[blk].Length)

NextCount ==
    \/ \E p \in PeerIds : Connect(p)
    \/ AnyPieceStep
    \/ AddBlockDataFinish
    \/ VerifyStep
    \/ \E s \in DOMAIN verifiers : VerifyWriteError(s)
    \/ RequestBookStep

SpecCount == InitCount /\ [][NextCount]_vars

\* The whole engine on a one-piece torrent, with sessions that hold the
\* torrent's bytes and may send any message at any time.
Init == InitWith(1, BlocksPerPiece * BlockSize, 0, SeedPeers)

CoordStep ==
    \/ CycleStart
    \/ \E p \in PeerIds : \E sendOk \in BOOLEAN : CycleRequest(p, sendOk)
    \/ updateProgress
    \/ cleanupTimedOutRequests
    \/ Tick

Next ==
    \/ SessionStep
    \/ PieceStep
    \/ AddBlockDataFinish
    \/ VerifyStep
    \/ CoordStep

Spec == Init /\ [][Next]_vars

\* Well-behaved peers: they connect, announce every piece, unchoke once and
\* answer their REQUESTs in order with the torrent's bytes.
HonestPeers == [p \in PeerIds |-> "honest"]

HonestStep ==
    \E p \in PeerIds :
        \/ Connect(p)
        \/ /\ peers[p].kind = "honest"
           /\ \/ \E bf \in PeerBitfields : RecvBitfield(p, bf)
              \/ RecvUnchoke(p)
              \/ HonestAnswer(p)

NextHonest ==
    \/ HonestStep
    \/ AddBlockDataFinish
    \/ VerifyStep
    \/ CoordStep

\* The engine on one piece of more blocks than a session may have
\* outstanding, with well-behaved peers.
BigPieceBlocks == maxRequestsPerPeer + 2

InitLimit == InitWith(1, BigPieceBlocks * BlockSize, 0, HonestPeers)

SpecLimit == InitLimit /\ [][NextHonest]_vars

\* Fair scheduling of the coordination loop, the timeout loop, the message
\* loop, the verification goroutines and the well-behaved peers' sessions.
Fairness ==
    /\ WF_vars(CycleStart)
    /\ WF_vars(\E p \in PeerIds : \E sendOk \in BOOLEAN : CycleRequest(p, sendOk))
    /\ WF_vars(updateProgress)
    /\ WF_vars(cleanupTimedOutRequests)
    /\ WF_vars(Tick)
    /\ WF_vars(AddBlockDataFinish)
    /\ WF_vars(VerifyStep)
    /\ \A p \in PeerIds :
          WF_vars(/\ peers[p].kind = "honest"
                  /\ \/ Connect(p)
                     \/ \E bf \in PeerBitfields : RecvBitfield(p, bf)
                     \/ RecvUnchoke(p)
                     \/ HonestAnswer(p))

\* The one-piece torrent downloaded from well-behaved peers under fair
\* scheduling.
InitFair == InitWith(1, BlocksPerPiece * BlockSize, 0, HonestPeers)

SpecFair == InitFair /\ [][NextHonest]_vars /\ Fairness

\* The same with peer 1 well-behaved and the others sending PIECE messages
\* of their own choosing, never unchoking.
HostilePeers == [p \in PeerIds |-> IF p = 1 THEN "honest" ELSE "any"]

InitHostile == InitWith(1, BlocksPerPiece * BlockSize, 0, HostilePeers)

HostilePiece ==
    \E p \in PeerIds : \E i \in DOMAIN pieces :
        \E blk \in DOMAIN pieces[i].Blocks : \E d \in Payloads(p, i, blk) :
            peers[p].kind = "any" /\ RecvPiece(p, i, blk, d)

NextHostile ==
    \/ NextHonest
    \/ HostilePiece

SpecHostile == InitHostile /\ [][NextHostile]_vars /\ Fairness

\* The sessions of the pool and the callers of their sending methods.
InitSend == InitWith(1, BlocksPerPiece * BlockSize, 0, SeedPeers)

RequestStep ==
    \E p \in PeerIds : \E blk \in DOMAIN pieces[0].Blocks :
        BeginRequestPiece(p, 0, pieces[0].Blocks[blk].Begin,
                          pieces[0].Blocks[blk].Length)

SendStep ==
    \E p \in PeerIds :
        \/ \E outcome \in {"sent", "closed", "full"} : SendMessage(p, outcome)
        \/ sendLoop(p)

NextSend ==
    \/ SessionStep
    \/ RequestStep
    \/ SendStep

SpecSend == InitSend /\ [][NextSend]_vars

\* A session on its own: its receiveLoop fed any message, its sendLoop and
\* the callers of its state-changing methods.  Only the first session is
\* driven; the manager's message loop does not run.
InitFlags ==
    InitWith(1, BlockSize, 0, [p \in PeerIds |-> IF p = 1 THEN "any" ELSE "seed"])

Driven == {1}

ReceiveStep == \E p \in Driven : \E msg \in Messages : Receive(p, msg)

FlagCallStep == \E p \in Driven : \E op \in FlagOps : BeginFlagCall(p, op)

NextFlags ==
    \/ \E p \in Driven : Connect(p)
    \/ \E p \in Driven : Disconnect(p)
    \/ ReceiveStep
    \/ FlagCallStep
    \/ \E p \in Driven : \E outcome \in {"sent", "closed", "full"} :
          SendMessage(p, outcome)
    \/ \E p \in Driven : sendLoop(p)

SpecFlags == InitFlags /\ [][NextFlags]_vars

\* Serving the requests of one session for a one-block piece that is being
\* downloaded from it at the same time.
InitUpload ==
    InitWith(1, BlockSize, 0, [p \in PeerIds |-> IF p = 1 THEN "any" ELSE "seed"])

UploadMessages ==
    {Message(id, 0, 0, 0) : id \in {"interested", "not_interested"}}
    \cup {Message("request", 0, 0, BlockSize)}
    \cup {NewPieceMessage(0, 0, [len |-> BlockSize, body |-> TrueBody(0, 0)])}

UploadReceiveStep ==
    \E p \in Driven : \E msg \in UploadMessages : Receive(p, msg)

ServeStep ==
    \E p \in Driven : \E outcome \in {"sent", "closed", "full"} :
        handlePeerMessage(p, outcome)

ChokeStep == \E p \in Driven : \E op \in {"Choke", "Unchoke"} : BeginFlagCall(p, op)

NextUpload ==
    \/ \E p \in Driven : Connect(p)
    \/ UploadReceiveStep
    \/ ServeStep
    \/ AddBlockDataFinish
    \/ VerifyStep
    \/ ChokeStep
    \/ \E p \in Driven : \E outcome \in {"sent", "closed", "full"} :
          SendMessage(p, outcome)
    \/ \E p \in Driven : sendLoop(p)
    \/ BroadcastHave(0)

SpecUpload == InitUpload /\ [][NextUpload]_vars

\* The bitfield of torrents of several sizes under MarkPieceVerified calls
\* with indices inside and outside the torrent.
\* Sizes with a full last byte, one bit in the last byte, and 17 pieces.
BitfieldSizes == {1, 8, 9, 17}

InitBits ==
    \E n \in BitfieldSizes : InitWith(n, BlockSize, 0, SeedPeers)

NextBits ==
    \E i \in -1..(Cardinality(DOMAIN pieces) + 8) : CallMarkPieceVerified(i)

SpecBits == InitBits /\ [][NextBits]_vars

\* The disk manager on every layout of up to MaxFiles files (empty files
\* included) of a torrent of up to DiskMaxLength bytes, as one file or as a
\* multi-file torrent; pieces are written and read in any order.
RECURSIVE SumSeq(_, _)
SumSeq(q, k) == IF k = 0 THEN 0 ELSE q[k] + SumSeq(q, k - 1)

Layouts ==
    {l \in UNION {[1..n -> 0..DiskMaxLength] : n \in 1..MaxFiles} :
        /\ SumSeq(l, Len(l)) > DiskPieceLength
        /\ SumSeq(l, Len(l)) <= DiskMaxLength}

DiskBytes == {1, 2}

PieceBytes(d, index) == [1..PieceSize(d, index) -> DiskBytes]

InitDisk ==
    /\ InitBase(1, BlockSize, 0, SeedPeers)
    /\ stats = NoStats
    /\ \E l \in Layouts : \E single \in BOOLEAN :
          /\ single => Len(l) = 1
          /\ fs = NewDisk(single, l)

WriteStep ==
    \E i \in 0..(NumPiecesOf(fs) - 1) : \E data \in PieceBytes(fs, i) :
        CallWritePiece(i, data)

ReadStep == \E i \in 0..(NumPiecesOf(fs) - 1) : CallReadPiece(i)

NextDisk == WriteStep \/ ReadStep

SpecDisk == InitDisk /\ [][NextDisk]_vars

\* The registry under concurrent connection attempts and cleanup sweeps.
InitPool == InitWith(1, BlocksPerPiece * BlockSize, 0, SeedPeers)

NextPool ==
    \/ \E s \in 1..NumAttempts : \E addr \in 1..NumAddrs : connectToPeer(s, addr)
    \/ \E s \in 1..NumAttempts : \E ok \in BOOLEAN : dial(s, ok)
    \/ \E s \in 1..NumAttempts : addPeer(s)
    \/ \E s \in 1..NumAttempts : PeerStop(s)
    \/ \E s \in 1..NumAttempts : handlePeerExit(s)
    \/ cleanup

SpecPool == InitPool /\ [][NextPool]_vars

\* The codec on messages of every kind, with payloads up to and beyond the
\* length limit, and on frames the remote end made up.
MaxBitfieldBytes == 2
SampleBytes == {0, 1, 128, 255}
SampleWords == {0, 1, 256, BlockSize, MaxInt}

\* Block lengths: empty, short, a standard block, and the lengths around
\* the largest PIECE that ReadMessage accepts.
BlockLengths ==
    {0, 1, BlockSize, MaxMessageLength - 10, MaxMessageLength - 9,
     MaxMessageLength - 8}

CodecMessages ==
    {KeepAlive}
      \cup {NewMessage(id, <<>>) :
              id \in {MsgChoke, MsgUnchoke, MsgInterested, MsgNotInterested}}
      \cup {NewMessage(MsgHave, PutUint32(i)) : i \in SampleWords}
      \cup {NewMessage(MsgBitfield, Bytes(bf)) :
              bf \in UNION {[1..n -> SampleBytes] : n \in 0..MaxBitfieldBytes}}
      \cup {NewMessage(id, Cat(PutUint32(i),
                               Cat(PutUint32(b), PutUint32(BlockSize)))) :
              id \in {MsgRequest, MsgCancel}, i \in {0, 1}, b \in SampleWords}
      \cup {NewMessage(MsgPiece, Cat(PutUint32(i),
                                     Cat(PutUint32(0), Run(fill, n)))) :
              i \in {0, 1}, fill \in {0, 170}, n \in BlockLengths}
      \cup {NewMessage(MsgPort, PutUint16(port)) : port \in {0, 6881, 65535}}

\* Frames of the remote end: a length prefix around zero or around the
\* limit, followed by no byte, a few bytes or as many as the limit allows.
RemoteFrames ==
    {Cat(prefix, body) :
        prefix \in {PutUint32(n) : n \in {0, 1, 2, MaxMessageLength - 1,
                                          MaxMessageLength,
                                          MaxMessageLength + 1, 16777216}}
                     \cup {Bytes(<<128, 0, 0, 0>>),
                           Bytes(<<255, 255, 255, 255>>)},
        body \in {<<>>, Bytes(<<MsgUnchoke>>), Bytes(<<MsgHave, 0>>),
                  Run(MsgHave, MaxMessageLength)}}
      \cup {<<>>, Bytes(<<0>>), Bytes(<<0, 0, 0>>)}

InitCodec == InitWith(1, BlockSize, 0, SeedPeers)

MessageStep == \E m \in CodecMessages : CallWriteMessage(m)
RemoteStep == \E bytes \in RemoteFrames : RemoteWrite(bytes)

NextCodec == MessageStep \/ RemoteStep \/ CallReadMessage

SpecCodec == InitCodec /\ [][NextCodec]_vars

\* One session of a two-piece torrent: the remote end announces pieces,
\* pieces get verified, and the coordinator calls EnsureInterested with the
\* pieces still needed.
InitInterest ==
    InitWith(2, BlockSize, 0, [p \in PeerIds |-> IF p = 1 THEN "any" ELSE "seed"])

InterestMessages ==
    {Message("have", i, 0, 0) : i \in 0..1}
      \cup {[Message("bitfield", 0, 0, 0) EXCEPT !.Payload = <<byte>>] :
               byte \in {0, 64, 128, 192}}

AnnounceStep == \E p \in Driven : \E msg \in InterestMessages : Receive(p, msg)

InterestStep == \E p \in Driven : CallEnsureInterested(p, GetNeededPieces)

NextInterest ==
    \/ \E p \in Driven : Connect(p)
    \/ \E p \in Driven : Disconnect(p)
    \/ AnnounceStep
    \/ \E i \in 0..1 : CallMarkPieceVerified(i)
    \/ InterestStep
    \/ \E p \in Driven : ReturnNil(p)
    \/ \E p \in Driven : \E outcome \in {"sent", "closed", "full"} :
          SendMessage(p, outcome)
    \/ \E p \in Driven : sendLoop(p)

SpecInterest == InitInterest /\ [][NextInterest]_vars

\* The strategies on stores of one-block pieces in which some pieces are
\* verified and some are complete and wait for their hash check, called
\* with bitfields of several shapes while peers come and go.
StrategySizes == {3, 13, 15}

\* createBitfield of the strategy tests: the bits of S in a bitfield for
\* pieceCount pieces.
RECURSIVE createBitfield(_, _)
createBitfield(pieceCount, S) ==
    IF S = {} THEN NewBitfield(pieceCount)
    ELSE LET i == CHOOSE k \in S : TRUE
         IN  OrBit(createBitfield(pieceCount, S \ {i}), i)

\* A piece of the store in state st: complete unless Missing.
PieceIn(i, st) ==
    LET p == NewPiece(i, BlockSize, PieceHash(i, 1))
        data == [len |-> BlockSize, body |-> TrueBody(i, 0)]
    IN  IF st = PieceStateMissing THEN p
        ELSE [SetBlockData(p, 0, data).piece EXCEPT !.State = st]

VerifiedSets(n) ==
    {0..(k - 1) : k \in 0..n}
      \cup {(n - k)..(n - 1) : k \in {1, 4, 5} \cap (0..n)}
      \cup {{i \in 0..(n - 1) : i % 2 = 1}}

\* At most one piece waits for its hash check: the first or the last of
\* those not verified.
DownloadedSets(n, V) ==
    LET rest == (0..(n - 1)) \ V
    IN  {{}} \cup {{i} : i \in {j \in rest : \/ \A k \in rest : j <= k
                                            \/ \A k \in rest : j >= k}}

\* Bitfields of at most 13 pieces: every piece or the first 13, none, the
\* last, the middle one, the even ones, all but the first and the last.
StrategyBitfields ==
    LET n == Cardinality(DOMAIN pieces)
    IN  {createBitfield(n, S \cap (0..12)) :
            S \in {0..(n - 1), {}, {n - 1}, {n \div 2},
                   {i \in 0..(n - 1) : i % 2 = 0}, 1..(n - 2)}}

StrategyNames ==
    {"sequential", "random", "rarest-first", "endgame", "smart", "priority"}

\* The priorities set: below, at and above the default 0.
Priorities == {-1, 0, 5}

InitStrategy ==
    \E n \in StrategySizes : \E V \in VerifiedSets(n) :
      \E D \in DownloadedSets(n, V) :
        \E name \in StrategyNames :
          /\ pieces = [i \in 0..(n - 1) |->
                          PieceIn(i, IF i \in V THEN PieceStateVerified
                                     ELSE IF i \in D THEN PieceStateDownloaded
                                     ELSE PieceStateMissing)]
          /\ bitfield = createBitfield(n, V)
          /\ disk = [i \in 0..(n - 1) |->
                        IF i \in V THEN GetData(PieceIn(i, PieceStateVerified))
                        ELSE ZeroPiece(PieceIn(i, PieceStateMissing))]
          /\ InitRest(n, SeedPeers)
          /\ stats = NoStats
          /\ fs = NoFiles
          /\ conn = NoConn
          /\ strategy = NewStrategy(name)
          /\ locks = NoLocks

SelectStep ==
    \E bf \in StrategyBitfields \cup {NilBytes, <<>>} : CallSelectPiece(bf)

UpdateStep ==
    \E id \in {"peer1", "peer2"} : \E bf \in StrategyBitfields :
        UpdatePeerBitfield(id, bf)

PriorityStep ==
    \E i \in {0, Cardinality(DOMAIN pieces) - 1} : \E priority \in Priorities :
        SetPriority(i, priority)

NextStrategy ==
    \/ SelectStep
    \/ UpdateStep
    \/ \E id \in {"peer1", "peer2"} : RemovePeer(id)
    \/ PriorityStep

SpecStrategy == InitStrategy /\ [][NextStrategy]_vars

\* The engine with requestPiecesFromPeer taken statement by statement: the
\* first session handles CHOKE, UNCHOKE, BITFIELD, HAVE and PIECE messages
\* and ends between the coordinator's reads and its sends.  The second
\* session never completes its handshake.
InitIssue == InitWith(1, BlocksPerPiece * BlockSize, 0, SeedPeers)

DrivenSessionStep ==
    \E p \in Driven :
        \/ Connect(p)
        \/ RecvChoke(p)
        \/ RecvUnchoke(p)
        \/ \E bf \in PeerBitfields \cup {NewBitfield(1)} : RecvBitfield(p, bf)
        \/ \E i \in DOMAIN pieces : RecvHave(p, i)
        \/ Disconnect(p)
        \/ removePeer(p)
        \/ sendLoop(p)

IssueStep ==
    \/ CycleStart
    \/ \E p \in PeerIds : BeginRequestPieces(p)
    \/ NextBlockRequest
    \/ \E outcome \in {"sent", "closed", "full"} : SendBlockRequest(outcome)
    \/ updateProgress

ArrivalStep ==
    \/ \E p \in Driven : \E blk \in DOMAIN pieces[0].Blocks :
         \E d \in Payloads(p, 0, blk) :
           AddBlockData(p, 0, pieces[0].Blocks[blk].Begin, d)
    \/ StartVerification
    \/ BlockReceivedHook

NextIssue ==
    \/ DrivenSessionStep
    \/ ArrivalStep
    \/ VerifyStep
    \/ IssueStep

SpecIssue == InitIssue /\ [][NextIssue]_vars

\* The piece store fed PIECE messages of any index, offset and length.
\* Nothing runs once the process panicked.
PieceIndexes == {0, 1, MaxInt}

IndexedPieceStep ==
    \E p \in PeerIds : \E i \in PieceIndexes :
        \E begin \in Offsets(0) : \E d \in AnyPayloads :
            RecvPieceIndexed(p, i, begin, d)

NextIndexed ==
    \/ ~Panicked /\ \E p \in PeerIds : Connect(p)
    \/ ~Panicked /\ IndexedPieceStep
    \/ ~Panicked /\ AddBlockDataFinish
    \/ ~Panicked /\ VerifyStep
    \/ ~Panicked /\ \E s \in DOMAIN verifiers : VerifyWriteError(s)

SpecIndexed == InitCount /\ [][NextIndexed]_vars

\* A session fed frames of any shape: well-formed messages, messages whose
\* payload has the wrong length, an oversized frame, a frame cut short.
Frames ==
    {Serialize(m) :
        m \in {KeepAlive, NewMessage(MsgChoke, <<>>), NewMessage(MsgUnchoke, <<>>),
               NewMessage(MsgHave, PutUint32(0)),
               NewMessage(MsgHave, Bytes(<<0, 0, 0>>)),
               NewMessage(MsgBitfield, Bytes(<<128>>)),
               NewMessage(MsgBitfield, Bytes(<<0>>)),
               NewMessage(MsgRequest, Cat(PutUint32(0),
                                 Cat(PutUint32(0), PutUint32(BlockSize)))),
               NewMessage(MsgRequest, Run(0, 11)),
               NewMessage(MsgCancel, Run(0, 13)),
               NewMessage(MsgPiece, Cat(PutUint32(0),
                                 Cat(PutUint32(0), Run(1, BlockSize)))),
               NewMessage(MsgPiece, Run(0, 7))}}
      \cup {PutUint32(MaxMessageLength + 1), Bytes(<<0, 0>>),
            Cat(PutUint32(5), Bytes(<<MsgHave>>))}

InitFrames ==
    InitWith(1, BlockSize, 0, [p \in PeerIds |-> IF p = 1 THEN "any" ELSE "seed"])

FrameStep == \E p \in Driven : \E bytes \in Frames : receiveLoop(p, bytes)

NextFrames ==
    \/ \E p \in PeerIds : Connect(p)
    \/ FrameStep
    \/ ServeStep
    \/ AddBlockDataFinish
    \/ VerifyStep
    \/ \E p \in PeerIds : removePeer(p)

SpecFrames == InitFrames /\ [][NextFrames]_vars

\* One session and its read deadline, with a peer that sends a frame
\* whenever it likes; time advances by half a minute.
MaxSeconds == 420
SecondsStep == 30

InitDeadline ==
    /\ InitSession(1, BlockSize, 0, AnyPeers)
    /\ conn = NewReader
    /\ strategy = NoStrategy
    /\ locks = NoLocks
    /\ stats = NoStats
    /\ fs = NoFiles

NextDeadline ==
    \/ \E p \in Driven : Connect(p)
    \/ \E p \in Driven : BeginRead(p)
    \/ \E p \in Driven :
         \E id \in {"keepalive", "choke", "unchoke", "interested"} :
            FrameRead(p, Message(id, 0, 0, 0))
    \/ \E p \in Driven : ReadTimedOut(p)
    \/ Elapse(SecondsStep, MaxSeconds)

SpecDeadline == InitDeadline /\ [][NextDeadline]_vars

\* The locks of the piece store around one complete piece: a background
\* verification, block arrivals for the piece, GetPieceInfo and
\* MarkPieceVerified, each called again and again.
StoreCallers ==
    [verifier |-> "verifyAndStorePiece", arrival |-> "AddBlockData",
     info |-> "GetPieceInfo", marker |-> "MarkPieceVerified"]

InitLocks(callers, mutexes) ==
    /\ InitSession(1, BlockSize, 0, AnyPeers)
    /\ conn = NoConn
    /\ strategy = NoStrategy
    /\ stats = NoStats
    /\ fs = NoFiles
    /\ locks = [mu |-> [m \in mutexes |-> NewRWMutex(DOMAIN callers)],
                th |-> [t \in DOMAIN callers |-> [op |-> callers[t], pc |-> 0]]]

InitStoreLocks == InitLocks(StoreCallers, {"m.mu", "piece.mu", "stats.mu"})

SpecStoreLocks == InitStoreLocks /\ [][LockStep]_vars

\* The locks of the pool: GetStats, addPeer, removePeer and cleanup, each
\* called again and again.
PoolCallers ==
    [stats |-> "GetStats", adder |-> "addPeer", remover |-> "removePeer",
     sweeper |-> "cleanup"]

InitPoolLocks == InitLocks(PoolCallers, {"pool.mu", "pool.stats.mu", "peer.mu"})

SpecPoolLocks == InitPoolLocks /\ [][LockStep]_vars

-----------------------------------------------------------------------------
(* Properties of the piece store *)

StateRank(st) ==
    CASE st = PieceStateMissing -> 0
      [] st = PieceStateRequested -> 1
      [] st = PieceStateDownloaded -> 2
      [] st = PieceStateVerified -> 3

\* C1: at every moment, bit i of the exported bitfield is set if and only
\* if piece i is in state Verified.
C1_BitfieldIffVerified ==
    \A i \in DOMAIN pieces :
        TestBit(bitfield, i) <=> pieces[i].State = PieceStateVerified

\* C2: whenever a piece is Verified, the bytes stored on disk for it hash
\* to the expected piece hash, whatever blocks the peers sent.
C2_VerifiedOnDisk ==
    \A i \in DOMAIN pieces :
        pieces[i].State = PieceStateVerified => SHA1(disk[i]) = pieces[i].Hash

\* A piece is Verified while one of its block slots holds a tampered
\* payload that a peer sent after the good bytes were assembled.
C2_Witness ==
    \E i \in DOMAIN pieces :
        /\ pieces[i].State = PieceStateVerified
        /\ \E blk \in DOMAIN pieces[i].Blocks :
              /\ pieces[i].Blocks[blk].Data # NilData
              /\ pieces[i].Blocks[blk].Data.body # TrueBody(i, blk)

\* C3: a piece's state only moves forward (Missing, Requested, Downloaded,
\* Verified) except for Downloaded -> Missing on a hash failure; a Verified
\* piece stays Verified.
C3_StateMonotone ==
    [][\A i \in DOMAIN pieces :
          \/ StateRank(pieces'[i].State) >= StateRank(pieces[i].State)
          \/ /\ pieces[i].State = PieceStateDownloaded
             /\ pieces'[i].State = PieceStateMissing]_vars

-----------------------------------------------------------------------------
(* Properties of the coordinator *)

\* The missing blocks of piece i, as keys of the outstanding-requests map.
MissingKeys(i) ==
    {RequestKey(i, pieces[i].Blocks[b].Begin) :
        b \in {c \in DOMAIN pieces[i].Blocks :
                  pieces[i].Blocks[c].Data = NilData}}

\* C4: the coordinator holds at most one outstanding request per (piece
\* index, block offset): while a block has an entry, no step replaces the
\* entry and no coordination step sends a REQUEST for that block, to the
\* same or to another peer.
C4_OneOutstandingRequest ==
    [][/\ \A k \in DOMAIN activeRequests \cap DOMAIN activeRequests' :
             activeRequests'[k] = activeRequests[k]
       /\ \A p \in PeerIds : \A sendOk \in BOOLEAN :
             CycleRequest(p, sendOk) /\ CanDownload(peers[p]) =>
                 LET sent == requestPiecesFromPeer(p, sendOk, cycle.needed).sent
                 IN  \A n \in DOMAIN sent : sent[n] \notin DOMAIN activeRequests
      ]_vars

\* Every peer of the cycle has been visited, two of them can download and
\* have the piece, and every missing block is on request from one of them
\* alone: the other was offered the same blocks and left them.
C4_Witness ==
    /\ cycle.pc = "request"
    /\ cycle.todo = {}
    /\ \E p, q \in PeerIds :
          /\ p # q
          /\ CanDownload(peers[p]) /\ CanDownload(peers[q])
          /\ HasPiece(peers[p], 0) /\ HasPiece(peers[q], 0)
          /\ IsConnected(p) /\ IsConnected(q)
          /\ MissingKeys(0) # {}
          /\ \A k \in MissingKeys(0) :
                k \in DOMAIN activeRequests /\ activeRequests[k].Peer = p

\* C5: the coordinator holds no outstanding request to a peer that chokes
\* us: once the coordination cycle has visited a peer whose peer_choking
\* is true, no entry of the map is assigned to that peer.
C5_NoRequestToChokingPeer ==
    [][\A p \in PeerIds :
          (\E sendOk \in BOOLEAN : CycleRequest(p, sendOk))
              /\ peers[p].PeerChoking
          => countActiveRequestsForPeer(activeRequests', p) = 0]_vars

\* C8: when a session terminates, every outstanding request assigned to
\* it is removed from the map: none is left when the pool has removed the
\* session.
C8_TerminatedSessionDropsRequests ==
    [][\A p \in PeerIds :
          removePeer(p) => countActiveRequestsForPeer(activeRequests', p) = 0
      ]_vars

\* C9: the timeout sweep evicts every request older than 15 seconds and no
\* other; a block whose request was evicted and that is still missing has
\* no entry and is among the blocks the next cycle may request.
C9_TimeoutSweep ==
    [][cleanupTimedOutRequests =>
          \A k \in DOMAIN activeRequests :
              IF now - activeRequests[k].RequestedAt > 15
              THEN /\ k \notin DOMAIN activeRequests'
                   /\ k \in MissingKeys(k[1]) =>
                          \E n \in DOMAIN GetBlockRequests(k[1]) :
                              GetBlockRequests(k[1])[n].Begin = k[2]
              ELSE /\ k \in DOMAIN activeRequests'
                   /\ activeRequests'[k] = activeRequests[k]]_vars

\* A REQUEST sent to one peer is still unanswered and the same block is on
\* request from another peer: the first request was evicted by the sweep
\* and the block requested again.
C9_Witness ==
    \E p, q \in PeerIds : \E n \in DOMAIN wire[p] :
        /\ p # q
        /\ wire[p][n] \in DOMAIN activeRequests
        /\ activeRequests[wire[p][n]].Peer = q
        /\ activeRequests[wire[p][n]].RequestedAt > requestTimeout

\* C10: for every peer, the entries of the outstanding-requests map
\* assigned to it never number more than 10.
C10_RequestsPerPeer ==
    \A p \in PeerIds :
        countActiveRequestsForPeer(activeRequests, p) <= 10

\* A peer has 10 requests outstanding while a missing block of the piece
\* has none and the peer can still download.
C10_Witness ==
    \E p \in PeerIds :
        /\ countActiveRequestsForPeer(activeRequests, p) = 10
        /\ CanDownload(peers[p])
        /\ \E k \in MissingKeys(0) : k \notin DOMAIN activeRequests
        /\ cycle.pc = "request" /\ p \notin cycle.todo

-----------------------------------------------------------------------------
(* Progress *)

\* C6: with one well-behaved peer that holds every piece, under fair
\* scheduling every piece is eventually Verified, whatever the other
\* peers send.
C6_Termination == <>(GetNeededPieces = {})

\* C7: once no piece is left to verify, IsDownloadComplete eventually
\* returns true.
C7_CompletionSignalled ==
    [](GetNeededPieces = {} => <>IsDownloadComplete)

-----------------------------------------------------------------------------
(* Properties of the sessions *)

\* C11: no REQUEST is placed on a session's send queue at a moment when
\* that peer is choking us.
C11_NoRequestQueuedWhileChoking ==
    [][\A p \in PeerIds :
          (/\ Len(sendCh'[p]) > Len(sendCh[p])
           /\ sendCh'[p][Len(sendCh'[p])].ID = "request")
          => ~peers[p].PeerChoking]_vars

\* C12: a failed hash check puts the piece back to Missing with every block
\* payload cleared, and leaves the bitfield, the counters of verified pieces
\* and bytes and the output files as they were.
HashFailed(s) ==
    /\ verifiers[s].pc = "verify"
    /\ ~VerifyPiece(verifiers[s].piece, verifiers[s].data)
    /\ verifiers'[s] = IdleSlot

C12_HashFailureResets ==
    [][\A s \in DOMAIN verifiers :
          HashFailed(s) =>
              LET i == verifiers[s].piece
              IN  /\ pieces'[i].State = PieceStateMissing
                  /\ \A b \in DOMAIN pieces'[i].Blocks :
                         pieces'[i].Blocks[b].Data = NilData
                  /\ bitfield' = bitfield
                  /\ disk' = disk
                  /\ stats'.VerifiedPieces = stats.VerifiedPieces
                  /\ stats'.CompletedPieces = stats.CompletedPieces
                  /\ stats'.BytesVerified = stats.BytesVerified]_vars

C12_Witness ==
    /\ pieces[0].State = PieceStateMissing
    /\ \A b \in DOMAIN pieces[0].Blocks : pieces[0].Blocks[b].Data = NilData
    /\ stats.BytesDownloaded >= pieces[0].Length
    /\ stats.VerifiedPieces = 0
    /\ \A s \in DOMAIN verifiers : verifiers[s] = IdleSlot

\* C13: a block whose offset is not the start of a block of the piece, or
\* whose length is not the declared length of the block at that offset, is
\* refused with an error and changes nothing in the piece store: no payload,
\* no pending request, no piece state and no counter changes.
Malformed(i, begin, d) ==
    \A b \in DOMAIN pieces[i].Blocks :
        pieces[i].Blocks[b].Begin = begin => pieces[i].Blocks[b].Length # d.len

C13_MalformedBlockRefused ==
    [][\A p \in PeerIds : \A i \in DOMAIN pieces :
          \A begin \in Offsets(i) : \A d \in AnyPayloads :
              (Malformed(i, begin, d) /\ RecvPieceAt(p, i, begin, d))
                  => /\ msgLoop'.err
                     /\ pieces' = pieces
                     /\ stats' = stats]_vars

C13_Witness ==
    /\ msgLoop.pc = "idle"
    /\ msgLoop.err
    /\ pieces[0].Requests # {}
    /\ \E b \in DOMAIN pieces[0].Blocks : pieces[0].Blocks[b].Data # NilData

\* C14: the VerifiedPieces counter is the number of pieces whose state is
\* Verified (so IsComplete and GetProgress speak of the actual states).
VerifiedCount ==
    Cardinality({i \in DOMAIN pieces : pieces[i].State = PieceStateVerified})

C14_VerifiedCounterExact == stats.VerifiedPieces = VerifiedCount

-----------------------------------------------------------------------------
(* Properties of the peer registry *)

\* C15: the registry never holds more than MaxPeers sessions nor two sessions
\* with the same address, and an addPeer that finds the registry full or the
\* address present returns false and registers nothing.
RegistryBounded ==
    /\ Cardinality(pool.registry) <= MaxPeers
    /\ \A e, f \in pool.registry : e[1] = f[1] => e = f

AddPeerRefused(s) ==
    /\ pool.attempts[s].pc = "started"
    /\ pool'.attempts[s].pc # "started"
    /\ \/ Cardinality(pool.registry) >= MaxPeers
       \/ \E e \in pool.registry : e[1] = pool.attempts[s].addr

C15_RegistryCapAndDedup ==
    /\ []RegistryBounded
    /\ [][\A s \in 1..NumAttempts :
             AddPeerRefused(s) => /\ pool'.registry = pool.registry
                                  /\ ~pool'.attempts[s].added]_vars

C15_Witness ==
    /\ Cardinality(pool.registry) = MaxPeers
    /\ \E s, t \in 1..NumAttempts :
          /\ pool.attempts[s].pc = "stopped"
          /\ pool.attempts[t].pc = "handling"
          /\ pool.attempts[t].addr = pool.attempts[s].addr

-----------------------------------------------------------------------------
(* Properties of the session state *)

Flags(peer) ==
    <<peer.AmChoking, peer.AmInterested, peer.PeerChoking, peer.PeerInterested>>

\* The flag a received message may change (0 for none), by its position
\* in Flags.
MatchingFlag(msg) ==
    CASE msg.ID \in {"choke", "unchoke"} -> 3
      [] msg.ID \in {"interested", "not_interested"} -> 4
      [] OTHER -> 0

\* C16: a session starts as (am_choking, am_interested, peer_choking,
\* peer_interested) = (true, false, true, false); a received message changes
\* at most its matching flag; am_choking and am_interested change only when
\* the matching message is sent, so a method that changed one of them on a
\* live session has queued its message when it returns.
C16_FlagsFollowMessages ==
    /\ [](\A p \in PeerIds :
            peers[p].status = "new"
                => Flags(peers[p]) = <<TRUE, FALSE, TRUE, FALSE>>)
    /\ [][\A p \in PeerIds :
             /\ \A msg \in Messages :
                   Receive(p, msg) =>
                       \A k \in 1..4 :
                           Flags(peers'[p])[k] # Flags(peers[p])[k]
                               => k = MatchingFlag(msg)
             /\ (/\ IsConnected(p)
                 /\ call[p].pc = "send"
                 /\ call'[p].pc = "idle"
                 /\ call[p].changed)
                   => sendCh'[p] = Append(sendCh[p], call[p].msg)]_vars

\* C17: after a HAVE for piece i is handled on a live session, the session
\* reports that the peer has piece i, whether or not a BITFIELD came first.
C17_HaveRecorded ==
    \A p \in PeerIds :
        (IsConnected(p) /\ rx[p].msg.ID = "have")
            => HasPiece(peers[p], rx[p].msg.Index)

\* C18: when the message loop serves a REQUEST of a session, a PIECE is
\* queued for it exactly when the piece is Verified and we are not choking
\* the session; otherwise nothing is sent and nothing changes.
ServesRequest(p) ==
    /\ rx[p].ch # <<>>
    /\ Head(rx[p].ch).ID = "request"
    /\ rx'[p].ch = Tail(rx[p].ch)

PieceQueued(p) ==
    /\ Len(sendCh'[p]) = Len(sendCh[p]) + 1
    /\ sendCh'[p][Len(sendCh'[p])].ID = "piece"

C18_PieceSentIffVerifiedAndUnchoked ==
    [][\A p \in PeerIds :
          ServesRequest(p) =>
              LET index == Head(rx[p].ch).Index
              IN  IF pieces[index].State = PieceStateVerified
                     /\ ~peers[p].AmChoking
                  THEN PieceQueued(p)
                  ELSE /\ sendCh' = sendCh
                       /\ pool' = pool
                       /\ peers' = peers
                       /\ pieces' = pieces]_vars

-----------------------------------------------------------------------------
(* Properties of the exported bitfield *)

\* C19: for N pieces the bitfield has ceil(N/8) bytes, piece i is the mask
\* 1 << (7 - (i mod 8)) of byte i div 8, and the bits past piece N - 1 stay
\* zero whatever index MarkPieceVerified is called with; with N = 17 and
\* piece 16 alone verified the bytes are 0, 0, 0x80.
MaskSet(byte, k) == (byte \div (2 ^ (7 - k))) % 2 = 1

C19_BitfieldLayout ==
    LET N == Cardinality(DOMAIN pieces)
    IN  /\ Len(bitfield) * 8 >= N
        /\ (Len(bitfield) - 1) * 8 < N
        /\ \A i \in 0..(N - 1) :
              (pieces[i].State = PieceStateVerified)
                  <=> MaskSet(bitfield[(i \div 8) + 1], i % 8)
        /\ \A j \in N..(Len(bitfield) * 8 - 1) :
              ~MaskSet(bitfield[(j \div 8) + 1], j % 8)
        /\ (N = 17 /\ GetNeededPieces = 0..15) => bitfield = <<0, 0, 128>>

C19_Witness ==
    /\ Cardinality(DOMAIN pieces) = 17
    /\ pieces[16].State = PieceStateVerified
    /\ bitfield = <<0, 0, 128>>

-----------------------------------------------------------------------------
(* Properties of the disk manager *)

RECURSIVE Concat(_, _)
Concat(files, k) ==
    IF k = 0 THEN <<>> ELSE Concat(files, k - 1) \o files[k]

\* The files in manifest order as one sequence of bytes.
Content(d) == Concat(d.files, Len(d.files))

\* C20: on every file layout, after WritePiece(i, bytes) ReadPiece(i) returns
\* bytes, the bytes lie at the piece's offset in the concatenation of the
\* files in manifest order, and the bytes of the other pieces are unchanged.
RoundTrip ==
    fs.last # NoPiece =>
        LET off == fs.last.index * fs.pieceLength
        IN  /\ ReadPiece(fs, fs.last.index) = fs.last.data
            /\ SubSeq(Content(fs), off + 1, off + Len(fs.last.data))
                   = fs.last.data

OthersUnchanged ==
    fs'.last # NoPiece =>
        LET off == fs'.last.index * fs.pieceLength
        IN  \A k \in 1..Len(Content(fs)) :
                (k <= off \/ k > off + Len(fs'.last.data))
                    => Content(fs')[k] = Content(fs)[k]

-----------------------------------------------------------------------------
(* Properties of the wire format *)

\* C21: for a message of any kind (keep-alive included, which reads back as
\* the nil message) ReadMessage on Serialize(m) returns a message with the
\* same id and payload, m being a message whose frame is within the length
\* limit; and ReadMessage returns an error for every frame whose length
\* prefix exceeds 128 KiB.
C21_MessageRoundTrip ==
    conn.out # <<>> =>
        LET out == conn.out[1]
        IN  /\ \A k \in 1..Len(conn.written) :
                 LET m == conn.written[k]
                 IN  1 + ByteLen(m.Payload) <= 131072
                        => /\ out.err = ""
                           /\ out.msg.ID = m.ID
                           /\ out.msg.Payload = m.Payload
                           /\ conn.buf = <<>>
            /\ (/\ ByteLen(conn.frame) >= 4
                /\ Uint32(Take(conn.frame, 4)) > 131072)
                  => out.err # ""

\* A PIECE of the largest accepted size was written and read back.
C21_Witness ==
    /\ conn.out # <<>>
    /\ conn.written # <<>>
    /\ conn.written[1].ID = MsgPiece
    /\ ByteLen(conn.written[1].Payload) = 131071
    /\ conn.out[1].msg = conn.written[1]

\* The peer of session p is known to hold a piece that is not verified.
HoldsNeeded(p) ==
    /\ peers[p].bitfield # NilBytes
    /\ \E i \in DOMAIN pieces :
          /\ pieces[i].State # PieceStateVerified
          /\ i \div 8 < Len(peers[p].bitfield)
          /\ MaskSet(peers[p].bitfield[i \div 8 + 1], i % 8)

\* C22: EnsureInterested(needed) on a session whose peer holds a needed
\* piece while am_interested is false sends INTERESTED and sets
\* am_interested; on one whose peer holds none (an unknown bitfield holds
\* none) while am_interested is true it sends NOT-INTERESTED and clears it;
\* otherwise it sends nothing and changes nothing.  Sent means that the
\* message is in the session's send queue when the call returns.
C22_EnsureInterested ==
    [][\A p \in Driven :
          /\ (call[p].pc = "idle" /\ call'[p].pc # "idle") =>
                CASE HoldsNeeded(p) /\ ~peers[p].AmInterested ->
                       /\ peers'[p] = [peers[p] EXCEPT !.AmInterested = TRUE]
                       /\ call'[p].pc = "send"
                       /\ call'[p].msg.ID = "interested"
                  [] ~HoldsNeeded(p) /\ peers[p].AmInterested ->
                       /\ peers'[p] = [peers[p] EXCEPT !.AmInterested = FALSE]
                       /\ call'[p].pc = "send"
                       /\ call'[p].msg.ID = "not_interested"
                  [] OTHER ->
                       /\ call'[p].pc = "done"
                       /\ peers' = peers
                       /\ sendCh' = sendCh
          /\ (/\ call[p].pc = "send"
              /\ call'[p].pc = "idle"
              /\ IsConnected(p))
                => sendCh'[p] = Append(sendCh[p], call[p].msg)]_vars

-----------------------------------------------------------------------------
(* Properties of the selection strategies *)

\* Bit i of a bitfield, as the wire format lays it out.
Has(bf, i) ==
    /\ bf # NilBytes
    /\ i \div 8 < Len(bf)
    /\ MaskSet(bf[i \div 8 + 1], i % 8)

\* The pieces in state Missing that the peer of the last call has.
MissingHeld ==
    {i \in DOMAIN pieces : /\ pieces[i].State = PieceStateMissing
                           /\ Has(strategy.arg, i)}

\* C23 as stated: the Sequential strategy returns the lowest-indexed piece
\* that is in state Missing and that the peer's bitfield contains, and none
\* when there is no such piece.
C23_SequentialLowestMissing ==
    (strategy.name = "sequential" /\ strategy.out # -2) =>
        IF MissingHeld = {} THEN strategy.out = -1
        ELSE /\ strategy.out \in MissingHeld
             /\ \A i \in MissingHeld : strategy.out <= i

\* The pieces not Verified that the peer of the last call has.
UnverifiedHeld ==
    {i \in DOMAIN pieces : /\ pieces[i].State # PieceStateVerified
                           /\ Has(strategy.arg, i)}

\* C23: the Sequential strategy returns the lowest-indexed piece that is not
\* Verified and that the peer's bitfield contains, and none when there is no
\* such piece (the peer has none of them, or all are verified).
C23_SequentialLowestUnverified ==
    (strategy.name = "sequential" /\ strategy.out # -2) =>
        IF UnverifiedHeld = {} THEN strategy.out = -1
        ELSE /\ strategy.out \in UnverifiedHeld
             /\ \A i \in UnverifiedHeld : strategy.out <= i

\* Sequential passed over verified pieces and over a piece the peer lacks.
C23_Witness ==
    /\ strategy.name = "sequential"
    /\ strategy.out > 1
    /\ pieces[0].State = PieceStateVerified
    /\ \E i \in DOMAIN pieces :
          /\ i < strategy.out
          /\ pieces[i].State # PieceStateVerified
          /\ ~Has(strategy.arg, i)
    /\ \E i \in UnverifiedHeld : i > strategy.out

\* The number of registered bitfields that have piece i.
HeldBy(i) ==
    Cardinality({id \in DOMAIN strategy.peerBitfields :
                    Has(strategy.peerBitfields[id], i)})

\* C24 as stated: the Rarest-first strategy returns, among the Missing
\* pieces the peer has, one held by the fewest registered bitfields, and
\* among those of equal rarity the one of lowest index.
C24_RarestLowestIndex ==
    (strategy.name = "rarest-first" /\ strategy.out # -2) =>
        IF MissingHeld = {} THEN strategy.out = -1
        ELSE /\ strategy.out \in MissingHeld
             /\ \A i \in MissingHeld :
                   \/ HeldBy(strategy.out) < HeldBy(i)
                   \/ HeldBy(strategy.out) = HeldBy(i) /\ strategy.out <= i

\* C24: the Rarest-first strategy returns, among the pieces not Verified that
\* the peer has, one held by the fewest registered bitfields, and none when
\* there is no such piece; with at most 12 such pieces it is the one of
\* lowest index among those of equal rarity.
C24_RarestAmongUnverified ==
    (strategy.name = "rarest-first" /\ strategy.out # -2) =>
        IF UnverifiedHeld = {} THEN strategy.out = -1
        ELSE /\ strategy.out \in UnverifiedHeld
             /\ \A i \in UnverifiedHeld : HeldBy(strategy.out) <= HeldBy(i)
             /\ Cardinality(UnverifiedHeld) <= 12 =>
                   \A i \in UnverifiedHeld :
                       HeldBy(i) = HeldBy(strategy.out) => strategy.out <= i

\* A piece was chosen for its rarity against a piece of lower index, with
\* another piece as rare as it.
C24_Witness ==
    /\ strategy.name = "rarest-first"
    /\ strategy.out > 0
    /\ \E i \in UnverifiedHeld : i < strategy.out /\ HeldBy(i) > HeldBy(strategy.out)
    /\ \E i \in UnverifiedHeld : i > strategy.out /\ HeldBy(i) = HeldBy(strategy.out)

VerifiedPieces == {i \in DOMAIN pieces : pieces[i].State = PieceStateVerified}
Remaining == Cardinality(DOMAIN pieces) - Cardinality(VerifiedPieces)

\* The answers of Sequential and of Rarest-first to the last call.
AsSequential ==
    /\ strategy.out \in UnverifiedHeld
    /\ \A i \in UnverifiedHeld : strategy.out <= i

AsRarestFirst ==
    /\ strategy.out \in UnverifiedHeld
    /\ \A i \in UnverifiedHeld :
          \/ HeldBy(strategy.out) < HeldBy(i)
          \/ HeldBy(strategy.out) = HeldBy(i) /\ strategy.out <= i

\* C25 as stated: Smart chooses as Sequential does while fewer than 4 pieces
\* are verified, as Rarest-first does once 4 are verified and more than 10
\* remain, and otherwise returns a Missing piece the peer has.
C25_SmartEndgameMissing ==
    (strategy.name = "smart" /\ strategy.out # -2) =>
        CASE Cardinality(VerifiedPieces) < 4 ->
               IF UnverifiedHeld = {} THEN strategy.out = -1 ELSE AsSequential
          [] Cardinality(VerifiedPieces) >= 4 /\ Remaining > 10 ->
               IF UnverifiedHeld = {} THEN strategy.out = -1 ELSE AsRarestFirst
          [] OTHER ->
               IF MissingHeld = {} THEN strategy.out = -1
               ELSE strategy.out \in MissingHeld

\* C25: Smart chooses as Sequential does while fewer than 4 pieces are
\* verified and as Rarest-first does once 4 are verified and more than 10
\* remain; otherwise (10 or fewer remain) it acts as its end game: it returns
\* a piece that is not Verified and that the peer has, the lowest-indexed
\* one when 5 or fewer remain and the choice of Rarest-first when 6 to 10
\* remain.  It returns none exactly when the peer has no such piece.
C25_SmartThresholds ==
    (strategy.name = "smart" /\ strategy.out # -2) =>
        IF UnverifiedHeld = {} THEN strategy.out = -1
        ELSE CASE Cardinality(VerifiedPieces) < 4 -> AsSequential
               [] Cardinality(VerifiedPieces) >= 4 /\ Remaining > 10 ->
                      AsRarestFirst
               [] Cardinality(VerifiedPieces) >= 4 /\ Remaining \in 6..10 ->
                      AsRarestFirst
               [] OTHER -> AsSequential

\* With 4 pieces verified and 11 left, Smart preferred a rarer piece to the
\* lowest one.
C25_Witness ==
    /\ strategy.name = "smart"
    /\ Cardinality(VerifiedPieces) = 4
    /\ Remaining = 11
    /\ strategy.out \in UnverifiedHeld
    /\ \E i \in UnverifiedHeld :
          i < strategy.out /\ HeldBy(i) > HeldBy(strategy.out)

-----------------------------------------------------------------------------
(* Properties of the requests the coordinator issues *)

\* The step that queues a REQUEST: SendMessage took the send case.
RequestIssued ==
    /\ cycle.pc = "sending"
    /\ cycle'.pc = "issue"
    /\ cycle'.made > cycle.made

\* The block of piece index that starts at begin holds no payload.
NoPayload(index, begin) ==
    \A i \in DOMAIN pieces[index].Blocks :
        pieces[index].Blocks[i].Begin = begin =>
            pieces[index].Blocks[i].Data = NilData

-----------------------------------------------------------------------------
(* Properties of a PIECE whose index is out of range *)

\* C27: a PIECE message with a piece index outside [0, N) is a local error:
\* AddBlockData returns an error, the piece store and the sessions stay
\* unchanged, and the process does not crash.
C27_BadIndexIsLocal ==
    [][(/\ msgLoop.pc = "idle"
        /\ msgLoop' # msgLoop
        /\ msgLoop'.piece \notin DOMAIN pieces
        /\ msgLoop'.piece # -1) =>
            /\ ~Panicked'
            /\ msgLoop'.err
            /\ pieces' = pieces
            /\ bitfield' = bitfield
            /\ stats' = stats
            /\ peers' = peers]_vars

-----------------------------------------------------------------------------
(* Properties of the receive path *)

\* C28: every PIECE message the receive loop of a live session reads is
\* passed on towards the message loop: it is appended to the session's
\* receive queue, whatever the queue already holds.
C28_PieceForwarded ==
    [][\A p \in PeerIds :
          (/\ IsConnected(p)
           /\ rx'[p].msg # rx[p].msg
           /\ rx'[p].msg.ID = "piece") =>
              rx'[p].ch = Append(rx[p].ch, rx'[p].msg)]_vars

-----------------------------------------------------------------------------
(* Properties of the block-arrival hook *)

\* The REQUESTs sent to p that p has not answered yet.
InFlight(p) == Len(wire[p])

\* A PIECE from session p is handled in this step.
PieceFrom(p) == wire[p] # <<>> /\ wire'[p] = Tail(wire[p])

\* Only a PIECE from the session an entry was issued to clears the entry.
ClearedBySender ==
    \A k \in DOMAIN activeRequests : \A p \in PeerIds :
        (PieceFrom(p) /\ k \notin DOMAIN activeRequests') =>
            activeRequests[k].Peer = p

\* C29: the block-arrival hook removes an entry only on a matching PIECE
\* receipt, an entry issued to peer A being cleared by a PIECE from A, and
\* at most 10 REQUESTs are in flight to one peer.
C29_HookMatchesSender ==
    /\ [][ClearedBySender]_vars
    /\ [](\A p \in PeerIds : InFlight(p) <= maxRequestsPerPeer)

-----------------------------------------------------------------------------
(* Properties of a stored payload *)

\* C30: once a block holds a payload, a second arrival for the same piece
\* and offset never replaces it: the payload stays the same until the piece
\* is reset after a hash failure.
C30_PayloadKept ==
    [][\A i \in DOMAIN pieces : \A b \in DOMAIN pieces[i].Blocks :
          pieces[i].Blocks[b].Data # NilData =>
              \/ pieces'[i].Blocks[b].Data = pieces[i].Blocks[b].Data
              \/ \A c \in DOMAIN pieces[i].Blocks :
                    pieces'[i].Blocks[c].Data = NilData]_vars

-----------------------------------------------------------------------------
(* Properties of the verification of a completed piece *)

\* The verifications of piece i that are running.
Verifying(i) ==
    {s \in DOMAIN verifiers : verifiers[s].pc # "idle" /\ verifiers[s].piece = i}

\* C31: a completion of a piece triggers exactly one hash verification and
\* at most one disk write, also when further blocks of the piece arrive
\* while the verification is running: no piece is under two verifications
\* at once.
C31_OneVerification ==
    \A i \in DOMAIN pieces : Cardinality(Verifying(i)) <= 1

\* C32: no piece holding all its blocks is left in state Downloaded with its
\* hash check and its disk write over: a disk write error aborts the run
\* instead of returning silently, so a complete Downloaded piece, which
\* has no block to request again, always has a verification running or
\* about to be started by AddBlockData.
C32_DownloadedIsBeingStored ==
    \A i \in DOMAIN pieces :
        (pieces[i].State = PieceStateDownloaded /\ IsComplete(pieces[i])) =>
            \/ Verifying(i) # {}
            \/ msgLoop.pc = "complete" /\ msgLoop.piece = i

-----------------------------------------------------------------------------
(* Properties of a session fed malformed frames *)

\* The frame is cut short, oversized, or a message whose payload has the
\* wrong length.
BadFrame(bytes) ==
    \/ ReadMessage(bytes).err # ""
    \/ /\ ReadMessage(bytes).msg # KeepAlive
       /\ ParseError(ReadMessage(bytes).msg)

\* C33: an I/O error, an oversized frame or a malformed payload (a REQUEST,
\* PIECE, CANCEL or HAVE of the wrong length) closes the session that read
\* it, and leaves every other session as it was.
C33_BadFrameClosesSession ==
    [][\A p \in PeerIds :
          (/\ IsConnected(p)
           /\ rx'[p].msg # rx[p].msg
           /\ rx'[p].msg.ID = "frame"
           /\ BadFrame(rx'[p].msg.bytes)) =>
              /\ peers'[p].status = "closed"
              /\ \A q \in PeerIds \ {p} : peers'[q] = peers[q]]_vars

-----------------------------------------------------------------------------
(* Properties of the read deadline *)

\* C34: a session is closed for read inactivity only after at least 5
\* minutes without any frame from the peer.
C34_ReadDeadlineFiveMinutes ==
    conn.pc = "timeout" => now - conn.lastFrame >= ReadIdleTimeout


-----------------------------------------------------------------------------
(* Properties of the availability recorded for a session *)

\* The pieces recorded as available from the remote peer of session p.
Available(p) == {i \in DOMAIN pieces : HasPiece(peers[p], i)}

SessionLives(p) == peers[p].status = "alive" /\ peers'[p].status = "alive"

BitfieldFrames ==
    {Serialize(NewMessage(MsgBitfield, Bytes(<<b>>))) : b \in {0, 128}}

\* C35 as stated: while a session lives, no step removes a piece from the
\* availability recorded for its remote peer, whatever message arrives.
C35_AvailabilityGrows ==
    [][\A p \in PeerIds : SessionLives(p) => Available(p) \subseteq Available(p)']_vars

\* C35, restated: while a session lives, every message other than a BITFIELD
\* leaves each recorded piece recorded (HAVE only adds); only a BITFIELD,
\* which replaces the recorded set by its payload, can remove one.
C35_OnlyBitfieldRemoves ==
    [][\A p \in PeerIds :
          (SessionLives(p) /\ rx'[p].msg.ID = "frame"
              /\ rx'[p].msg.bytes \notin BitfieldFrames)
          => Available(p) \subseteq Available(p)']_vars

\* A HAVE of piece 0 has been handled by a live session that held a bitfield,
\* and the piece is recorded.
C35_Witness ==
    \E p \in PeerIds :
        /\ peers[p].status = "alive"
        /\ rx[p].msg.ID = "frame"
        /\ rx[p].msg.bytes = Serialize(NewMessage(MsgHave, PutUint32(0)))
        /\ Available(p) = {0}

-----------------------------------------------------------------------------
(* Properties of the locks *)

\* C36: the operations of the piece store never deadlock: in no state is
\* there a set of operations each waiting for a lock that only another
\* operation of the set (or itself) can release.
C36_StoreNeverDeadlocks ==
    \A S \in SUBSET DOMAIN StoreCallers : ~Deadlocked(S)

\* C37: the operations of the pool never deadlock: GetStats, addPeer,
\* removePeer and cleanup never wait for each other's locks in a circle.
C37_PoolNeverDeadlocks ==
    \A S \in SUBSET DOMAIN PoolCallers : ~Deadlocked(S)


-----------------------------------------------------------------------------
(* Properties of the registry when sessions end *)

\* handlePeer of attempt s returns in this step.
HandlerReturns(s) ==
    pool.attempts[s].pc = "handling" /\ pool'.attempts[s].pc = "done"

\* C38: the end of a session removes no other session from the registry (a
\* new session registered at the address of a reaped one stays registered
\* when the old handler returns), and ActivePeers equals the number of
\* registered sessions.
C38_ExitRemovesOwnEntryOnly ==
    /\ [][\A s \in 1..NumAttempts :
             HandlerReturns(s)
             => \A e \in pool.registry : e[2] # s => e \in pool'.registry]_vars
    /\ [](pool.ActivePeers = Cardinality(pool.registry))


-----------------------------------------------------------------------------
(* Properties common to the selection strategies *)

\* C39: whatever the strategy, SelectPiece returns a piece exactly when some
\* piece is not Verified and in the peer's bitfield, and the piece it
\* returns is such a piece.
C39_SelectsIffHeld ==
    strategy.out # -2 =>
        /\ strategy.out = -1 <=> UnverifiedHeld = {}
        /\ strategy.out # -1 => strategy.out \in UnverifiedHeld

\* The priority strategy has returned a piece of raised priority that is
\* not the lowest the peer holds.
C39_Witness ==
    /\ strategy.name = "priority"
    /\ strategy.out \in UnverifiedHeld
    /\ PriorityOf(strategy.priorities, strategy.out) > 0
    /\ \E i \in UnverifiedHeld : i < strategy.out

-----------------------------------------------------------------------------
(* Properties of am_interested *)

\* Interested or NotInterested returns an error in this step: its message
\* was not queued.
InterestCallFails(p) ==
    /\ call[p].pc = "send"
    /\ call[p].op \in {"Interested", "NotInterested"}
    /\ call'[p].pc = "idle"
    /\ call'[p].err # ""

\* C40: am_interested follows the interest messages actually queued: when
\* Interested or NotInterested fails to queue its message (send queue full
\* or session closed), am_interested has the value it had before the call.
C40_InterestFollowsQueue ==
    [][\A p \in Driven :
          InterestCallFails(p)
          => /\ ~call[p].changed
             /\ peers'[p].AmInterested = peers[p].AmInterested]_vars

====
